---- MODULE Spec2Model ----
(***************************************************************************)
(* A model of the background capture script src/src/capturer/background.js *)
(* of WebScrapBook: the session registry (capturer.captureInfo), the       *)
(* filename allocator, the access deduplicator of downloadFile and         *)
(* captureUrl, the archive packager of saveDocument and downloadBlob, the  *)
(* download registry (capturer.downloadInfo) and captureTab.               *)
(*                                                                         *)
(* JavaScript strings are sequences of one-character strings, so that      *)
(* toLowerCase, the split at the last dot and the split at the anchor are  *)
(* computed and not assumed.  An optional property of an object is a       *)
(* sequence of length 0 (undefined) or 1 (the value).                      *)
(***************************************************************************)
EXTENDS Integers, Sequences, FiniteSets, TLC

VARIABLES
  captureInfo,   \* capturer.captureInfo: timeId -> {files, accessMap, zip}
  returned,      \* the values the allocator's calls have returned, in call order
  options,       \* the capture options of the session's calls
  accessMaps,    \* the accessMap objects created so far (a session holds an index)
  req,           \* the downloadFile and captureUrl calls: parameters, transport, stage
  promise,       \* accessCurrent of each call: pending, resolved to another, settled
  downloads,     \* the downloads asked of chrome.downloads, by download id
  downloadInfo,  \* capturer.downloadInfo: download id -> {src, autoErase, callbacks}
  docs,          \* the saveDocument, downloadBlob and captureBookmark calls
  tab            \* the captureTab call: its capture call, its chain, its promise

None == <<>>
Some(x) == <<x>>

(***************************************************************************)
(* Strings                                                                 *)
(***************************************************************************)
Str_untitled == <<"u","n","t","i","t","l","e","d">>
Str_index == <<"i","n","d","e","x">>
Str_html == <<".","h","t","m","l">>
Str_xhtml == <<".","x","h","t","m","l">>
Str_index_rdf == <<"i","n","d","e","x",".","r","d","f">>
Str_index_dat == <<"i","n","d","e","x",".","d","a","t">>
Str_index_html == Str_index \o Str_html
Str_index_xhtml == Str_index \o Str_xhtml

\* String.prototype.toLowerCase on the letters the model uses
ToLowerChar(c) ==
  CASE c = "A" -> "a"
    [] c = "B" -> "b"
    [] c = "D" -> "d"
    [] c = "E" -> "e"
    [] c = "F" -> "f"
    [] c = "H" -> "h"
    [] c = "I" -> "i"
    [] c = "L" -> "l"
    [] c = "M" -> "m"
    [] c = "N" -> "n"
    [] c = "R" -> "r"
    [] c = "T" -> "t"
    [] c = "X" -> "x"
    [] OTHER -> c

toLowerCase(s) == [i \in 1..Len(s) |-> ToLowerChar(s[i])]

\* the decimal digits of a number, as string concatenation writes it
Digits == <<"0","1","2","3","4","5","6","7","8","9">>

RECURSIVE NumStr(_)
NumStr(n) ==
  IF n < 10 THEN <<Digits[n + 1]>>
  ELSE NumStr(n \div 10) \o <<Digits[(n % 10) + 1]>>

\* String.prototype.lastIndexOf for a one-character needle; 0 when absent
LastIndexOf(s, c) ==
  LET hits == {i \in 1..Len(s) : s[i] = c}
  IN IF hits = {} THEN 0 ELSE CHOOSE i \in hits : \A j \in hits : j <= i

\* String.prototype.indexOf for a one-character needle; 0 when absent
IndexOf(s, c) ==
  LET hits == {i \in 1..Len(s) : s[i] = c}
  IN IF hits = {} THEN 0 ELSE CHOOSE i \in hits : \A j \in hits : i <= j

\* scrapbook.filenameParts: [base, extension], split at the last dot
filenameParts(filename) ==
  LET pos == LastIndexOf(filename, ".")
  IN IF pos # 0
     THEN <<SubSeq(filename, 1, pos - 1), SubSeq(filename, pos + 1, Len(filename))>>
     ELSE <<filename, <<>>>>

\* the UTF-8 length of a character: the accented letters take two bytes
ByteLen(c) == IF c \in {"é"} THEN 2 ELSE 1

\* the UTF-8 length of a string: the sum of its characters' byte lengths
Utf8Len(s) ==
  Cardinality({i \in 1..Len(s) : ByteLen(s[i]) = 1})
    + 2 * Cardinality({i \in 1..Len(s) : ByteLen(s[i]) = 2})

\* scrapbook.crop: the longest prefix within maxLength (UTF-8 bytes when
\* byUtf8, characters otherwise)
crop(str, maxLength, byUtf8) ==
  IF byUtf8
  THEN IF Utf8Len(str) <= maxLength THEN str
       ELSE LET fits == {k \in 0..Len(str) : Utf8Len(SubSeq(str, 1, k)) <= maxLength}
                k == CHOOSE k \in fits : \A j \in fits : j <= k
            IN SubSeq(str, 1, k)
  ELSE IF Len(str) > maxLength THEN SubSeq(str, 1, maxLength) ELSE str

(***************************************************************************)
(* The session registry and the filename allocator                         *)
(***************************************************************************)
TimeId == <<"t","1">>
TimeIds == {TimeId}

\* capturer.defaultFilesSet
defaultFilesSet == {Str_index_rdf, Str_index_dat}

\* the length bounds of a filename's base (bytes, then characters)
CropBytes == 240
CropChars == 128

\* the object a session starts as: {}
NewSession == [files |-> None, accessMap |-> None, zip |-> None]

\* if (!capturer.captureInfo.has(timeId)) { capturer.captureInfo.set(timeId, {}); }
EnsureSession(info, timeId) ==
  IF timeId \in DOMAIN info THEN info
  ELSE [t \in DOMAIN info \cup {timeId} |-> IF t = timeId THEN NewSession ELSE info[t]]

\* capturer.captureInfo.get(timeId).files || new Set(capturer.defaultFilesSet)
FilesOf(info, timeId) ==
  LET s == EnsureSession(info, timeId)[timeId]
  IN IF s.files = None THEN defaultFilesSet ELSE s.files[1]

SetFiles(info, timeId, files) ==
  [EnsureSession(info, timeId) EXCEPT ![timeId].files = Some(files)]

\* the membership test of the collision loops: files.has(name)
FilesHas(files, nameCI) == nameCI \in files

\* (a variant of the loop below that tests the name in its original case)
RECURSIVE UniqueLoopCaseSensitive(_, _, _, _)
UniqueLoopCaseSensitive(files, base, ext, count) ==
  LET newFilename == IF count = 0 THEN base \o ext
                     ELSE base \o <<"-">> \o NumStr(count) \o ext
  IN IF FilesHas(files, newFilename)
     THEN UniqueLoopCaseSensitive(files, base, ext, count + 1)
     ELSE newFilename

\* the loop of getUniqueFilename: the first count whose name is free
RECURSIVE UniqueLoop(_, _, _, _)
UniqueLoop(files, base, ext, count) ==
  LET newFilename == IF count = 0 THEN base \o ext
                     ELSE base \o <<"-">> \o NumStr(count) \o ext
  IN IF FilesHas(files, toLowerCase(newFilename))
     THEN UniqueLoop(files, base, ext, count + 1)
     ELSE newFilename

\* (a variant that does not crop the base)
UniqueFilenameUncropped(files, filename) ==
  LET newFilename == IF filename = <<>> THEN Str_untitled ELSE filename
      parts == filenameParts(newFilename)
      ext == IF parts[2] # <<>> THEN <<".">> \o parts[2] ELSE <<>>
  IN UniqueLoop(files, parts[1], ext, 0)

\* capturer.getUniqueFilename: the name it returns
UniqueFilename(files, filename) ==
  LET newFilename == IF filename = <<>> THEN Str_untitled ELSE filename
      parts == filenameParts(newFilename)
      base == crop(crop(parts[1], CropBytes, TRUE), CropChars, FALSE)
      ext == IF parts[2] # <<>> THEN <<".">> \o parts[2] ELSE <<>>
  IN UniqueLoop(files, base, ext, 0)

\* (a variant that adds the returned name in its original letter case)
FilesAfterUniqueAsReturned(files, filename) ==
  files \cup {UniqueFilename(files, filename)}

\* capturer.getUniqueFilename: the session's files after the call
FilesAfterUnique(files, filename) ==
  files \cup {toLowerCase(UniqueFilename(files, filename))}

\* (a variant of the loop below that tests the .html name only)
RECURSIVE DocumentLoopHtmlOnly(_, _, _)
DocumentLoopHtmlOnly(files, documentName, count) ==
  LET newDocumentName == IF count = 0 THEN documentName
                         ELSE documentName \o <<"_">> \o NumStr(count)
      newDocumentNameCI == toLowerCase(newDocumentName)
  IN IF FilesHas(files, newDocumentNameCI \o Str_html)
     THEN DocumentLoopHtmlOnly(files, documentName, count + 1)
     ELSE newDocumentName

\* the loop of registerDocument
RECURSIVE DocumentLoop(_, _, _)
DocumentLoop(files, documentName, count) ==
  LET newDocumentName == IF count = 0 THEN documentName
                         ELSE documentName \o <<"_">> \o NumStr(count)
      newDocumentNameCI == toLowerCase(newDocumentName)
  IN IF FilesHas(files, newDocumentNameCI \o Str_html)
        \/ FilesHas(files, newDocumentNameCI \o Str_xhtml)
     THEN DocumentLoop(files, documentName, count + 1)
     ELSE newDocumentName

\* capturer.registerDocument: the document name it returns
DocumentName(files, documentName) == DocumentLoop(files, documentName, 0)

\* capturer.registerDocument: the session's files after the call
FilesAfterDocument(files, documentName) ==
  LET ci == toLowerCase(DocumentName(files, documentName))
  IN files \cup {ci \o Str_html, ci \o Str_xhtml}

(***************************************************************************)
(* URLs, tokens, names derived from a response                             *)
(***************************************************************************)
Url_a_x == <<"a","#","x">>
Url_a_y == <<"a","#","y">>
Url_b == <<"b">>
Url_c == <<"c">>
Url_index_html == Str_index_html
Url_amp == <<"a","?","p","&","q">>
Url_data == <<"data:",",","d">>
Url_data_malformed == <<"data:","d">>
Url_data_x == <<"data:",",","d","#","x">>
Url_data_y == <<"data:",",","d","#","y">>

\* (a variant that keeps the anchor in the first part)
splitUrlByAnchorKeepsAnchor(url) == <<url, <<>>>>

\* scrapbook.splitUrlByAnchor: [the URL before "#", the "#" and what follows]
splitUrlByAnchor(url) ==
  LET pos == IndexOf(url, "#")
  IN IF pos # 0
     THEN <<SubSeq(url, 1, pos - 1), SubSeq(url, pos, Len(url))>>
     ELSE <<url, <<>>>>

\* sourceUrlMain of downloadFile and captureUrl
UrlMain(url) == splitUrlByAnchor(url)[1]

\* [, sourceUrlHash] = scrapbook.splitUrlByAnchor(sourceUrl)
UrlHash(url) == splitUrlByAnchor(url)[2]

\* sourceUrl.startsWith("data:")
StartsWithData(url) == Len(url) >= 1 /\ url[1] = "data:"

\* the rewrite methods: none (a plain file), a headless document
Method_none == <<>>
Method_captureUrl == <<"c","a","p","t","u","r","e","U","r","l">>

\* capturer.getAccessToken: the text that is hashed stands for its SHA-1 digest
getAccessToken(url, method) == splitUrlByAnchor(url)[1] \o <<"\t">> \o method

\* scrapbook.urlToFilename: the last path segment of the URL without its anchor
urlToFilename(url) ==
  LET main == UrlMain(url)
      pos == LastIndexOf(main, "/")
  IN SubSeq(main, pos + 1, Len(main))

\* scrapbook.validateFilename: characters a file system refuses become "_"
validateFilename(filename) ==
  [i \in 1..Len(filename) |->
     IF filename[i] \in {"/", ":", "?", "#", "data:"} THEN "_" ELSE filename[i]]

\* scrapbook.escapeFilename: the name as a relative URL
RECURSIVE escapeFilename(_)
escapeFilename(filename) ==
  IF filename = <<>> THEN <<>>
  ELSE (IF Head(filename) = " " THEN <<"%","2","0">> ELSE <<Head(filename)>>)
         \o escapeFilename(Tail(filename))

\* scrapbook.dataUriToFile: null for a data URL without a comma
dataUriToFile(url) ==
  LET pos == IndexOf(url, ",")
  IN IF pos = 0 THEN None
     ELSE Some([name |-> <<"d",".","b","i","n">>,
                blob |-> [type |-> "application/octet-stream", size |-> Len(url) - pos,
                          bytes |-> SubSeq(url, pos + 1, Len(url))]])

\* Mime.prototype.extension
MimeExtension(type) ==
  CASE type = "text/css" -> <<"c","s","s">>
    [] type = "image/png" -> <<"p","n","g">>
    [] type = "text/html" -> <<"h","t","m","l">>
    [] type = "application/xhtml+xml" -> <<"x","h","t","m","l">>
    [] OTHER -> <<>>

\* the response headers a fetch may report: Content-Disposition's filename
\* and Content-Type's type, each present or not
NoHeaders == [filename |-> None, contentType |-> None]
ResponseHeaders == { [filename |-> None, contentType |-> Some("text/css")] }

\* the URL a fetch may report as xhr.responseURL (the request's own URL
\* when not redirected)
ResponseUrls == { <<"a">>, <<"c">> }

\* the bodies a fetch may deliver
ResponseBlobs == { [type |-> "text/css", size |-> 200, bytes |-> <<"p">>] }

\* downloadFile, "determine the filename": the name before it is made unique
HeaderFilename(sourceUrl, headers) ==
  LET filename == IF headers.filename # None /\ headers.filename[1] # <<>>
                  THEN headers.filename[1] ELSE urlToFilename(sourceUrl)
      parts == filenameParts(filename)
      extension == IF headers.contentType # None THEN MimeExtension(headers.contentType[1])
                   ELSE <<>>
      filename2 == IF headers.contentType # None /\ parts[2] = <<>> /\ extension # <<>>
                   THEN parts[1] \o <<".">> \o extension ELSE filename
  IN validateFilename(filename2)

(***************************************************************************)
(* Results and promises                                                    *)
(***************************************************************************)
NoResult == [url |-> <<>>, filename |-> None, error |-> None]

\* capturer.getErrorUrl: the placeholder that stands for a failed resource
getErrorUrl(sourceUrl) == <<"urn:scrapbook:download:error:">> \o sourceUrl

\* {url: capturer.getErrorUrl(sourceUrl, options), error: ex}
ErrorResult(sourceUrl, ex) ==
  [url |-> getErrorUrl(sourceUrl), filename |-> None, error |-> Some(ex)]

\* {url: sourceUrl}
PassResult(sourceUrl) == [url |-> sourceUrl, filename |-> None, error |-> None]

\* {filename: filename, url: scrapbook.escapeFilename(filename) + sourceUrlHash}
FileResult(filename, sourceUrl) ==
  [url |-> escapeFilename(filename) \o UrlHash(sourceUrl), filename |-> Some(filename),
   error |-> None]

\* base64, as the code of each byte: two characters of the base64 alphabet
Base64Code(byte) ==
  CASE byte = "#" -> <<"I","w">>
    [] byte = ";" -> <<"O","w">>
    [] byte = "," -> <<"L","A">>
    [] OTHER -> <<"c", byte>>

RECURSIVE Base64(_)
Base64(bytes) ==
  IF bytes = <<>> THEN <<>> ELSE Base64Code(Head(bytes)) \o Base64(Tail(bytes))

\* FileReader.readAsDataURL
readFileAsDataURL(blob) == <<"data:", blob.type, ";", "base64", ",">> \o Base64(blob.bytes)

\* (a variant that leaves every character as it is)
encodeURIComponentNone(str) == str

\* encodeURIComponent: all but letters, digits and - _ . ! ~ * ' ( ) are
\* percent-encoded
RECURSIVE encodeURIComponent(_)
encodeURIComponent(str) ==
  IF str = <<>> THEN <<>>
  ELSE (CASE Head(str) = ";" -> <<"%","3","B">>
          [] Head(str) = "," -> <<"%","2","C">>
          [] Head(str) = "#" -> <<"%","2","3">>
          [] Head(str) = "/" -> <<"%","2","F">>
          [] Head(str) = " " -> <<"%","2","0">>
          [] Head(str) = "%" -> <<"%","2","5">>
          [] OTHER -> <<Head(str)>>) \o encodeURIComponent(Tail(str))

\* dataUri.replace(";", ";filename=" + encodeURIComponent(filename) + ";")
InsertFilename(dataUri, filename) ==
  LET pos == IndexOf(dataUri, ";")
  IN IF pos = 0 THEN dataUri
     ELSE SubSeq(dataUri, 1, pos - 1) \o <<";", "filename=">> \o encodeURIComponent(filename)
            \o <<";">> \o SubSeq(dataUri, pos + 1, Len(dataUri))

\* (a variant that answers with the filename, as the cases of an archive do)
DataUriResultAsFile(blob, filename, sourceUrl) == FileResult(filename, sourceUrl)

\* downloadBlob, case "singleHtml"
DataUriResult(blob, filename, sourceUrl) ==
  LET dataUri == readFileAsDataURL(blob)
      named == IF filename # <<>> THEN InsertFilename(dataUri, filename) ELSE dataUri
  IN [url |-> named \o UrlHash(sourceUrl), filename |-> None, error |-> None]

NoPromise == [st |-> "none", to |-> <<"none", 0>>, val |-> NoResult]
Pending == [st |-> "pending", to |-> <<"none", 0>>, val |-> NoResult]
Fulfilled(v) == [st |-> "fulfilled", to |-> <<"none", 0>>, val |-> v]
Rejected(ex) == [st |-> "rejected", to |-> <<"none", 0>>, val |-> [NoResult EXCEPT !.error = Some(ex)]]
\* resolve(accessPrevious): the promise takes the outcome of another
ResolvedTo(ref) == [st |-> "follows", to |-> ref, val |-> NoResult]

\* (a variant of the failure path without the catch handler)
FailureUncaught(sourceUrl, ex) == Rejected(ex)

\* the catch handler of accessCurrent: a failure becomes an error record
Failure(sourceUrl, ex) == Fulfilled(ErrorResult(sourceUrl, ex))

(***************************************************************************)
(* Session objects: the access map, the zip; downloads                     *)
(***************************************************************************)
\* the number of downloadFile and captureUrl calls of a capture
MaxReq == 2

Reqs == 1..MaxReq

\* options["capture.saveAs"], options["capture.saveDataUriAsFile"],
\* options["capture.saveInScrapbook"]
SaveAsValues == {"singleHtml", "zip", "maff", "folder"}

\* the modes in which downloadBlob answers without a download
MemoryModes == {"singleHtml", "zip", "maff"}

\* a call that has not been made.  responseUrl is xhr.responseURL once the
\* headers have arrived; allocs counts the call's getUniqueFilename calls;
\* failed tells that the catch handler of accessCurrent has run; child is the
\* downloadFile call that captureFile made for this call
NoReq ==
  [op |-> "none", url |-> <<>>, method |-> <<>>, map |-> 0,
   xhr |-> "none", pc |-> "none", filename |-> None, blob |-> None,
   main |-> FALSE, documentName |-> None, responseUrl |-> None,
   allocs |-> 0, failed |-> FALSE, child |-> 0]

\* new Map()
EmptyMap == [k \in {} |-> 0]

MapSet(m, k, v) == [x \in DOMAIN m \cup {k} |-> IF x = k THEN v ELSE m[x]]

MapDelete(m, k) == [x \in DOMAIN m \ {k} |-> m[x]]

\* the session's accessMap, created on first use:
\* capturer.captureInfo.get(timeId).accessMap || new Map()
AccessMapId(info, maps, timeId) ==
  LET s == EnsureSession(info, timeId)[timeId]
  IN IF s.accessMap = None THEN Len(maps) + 1 ELSE s.accessMap[1]

WithAccessMap(info, maps, timeId) ==
  [EnsureSession(info, timeId) EXCEPT ![timeId].accessMap = Some(AccessMapId(info, maps, timeId))]

MapsWithAccessMap(info, maps, timeId) ==
  IF AccessMapId(info, maps, timeId) > Len(maps) THEN Append(maps, EmptyMap) ELSE maps

\* the zip of the session, as a set of entries;
\* capturer.captureInfo.get(timeId).zip || new JSZip()
ZipOf(info, timeId) ==
  LET s == EnsureSession(info, timeId)[timeId]
  IN IF s.zip = None THEN {} ELSE s.zip[1]

\* /^text\/|\b(?:xml|json|javascript)\b/.test(blob.type)
CompressibleType(type) ==
  type \in {"text/css", "text/html", "application/xhtml+xml", "application/rdf+xml"}

\* the least size at which a sub-resource entry is compressed
MinCompressSize == 128

\* zip.file(path, blob, {compression: ...}): an entry replaces one of the same path
ZipFile(zip, path, blob, compression, meta) ==
  {e \in zip : e.path # path}
    \cup {[path |-> path, type |-> blob.type, size |-> blob.size,
           compression |-> compression, meta |-> meta]}

\* (a variant of the entry path without the session folder)
ZipPathFlat(mode, timeId, filename) == filename

\* the entry path under flat-archive (filename) and timestamped-archive
\* (timeId + "/" + filename)
ZipPath(mode, timeId, filename) ==
  IF mode = "maff" THEN timeId \o <<"/">> \o filename ELSE filename

\* downloadBlob, cases "zip" and "maff": the session after the entry is written
WithZipEntry(info, mode, timeId, filename, blob) ==
  LET zip == ZipOf(info, timeId)
      compression == IF CompressibleType(blob.type) /\ blob.size >= MinCompressSize
                     THEN "DEFLATE" ELSE "STORE"
  IN [EnsureSession(info, timeId) EXCEPT
        ![timeId].zip =
           Some(ZipFile(zip, ZipPath(mode, timeId, filename), blob, compression, None))]

\* options["capture.scrapbookFolder"]
ScrapbookFolder == <<"s","b">>

\* options["capture.scrapbookFolder"] + "/data/" + timeId
FolderDir(timeId) == ScrapbookFolder \o <<"/","d","a","t","a","/">> \o timeId

\* options["capture.scrapbookFolder"] + "/data"
DataDir == ScrapbookFolder \o <<"/","d","a","t","a">>

\* capturer.saveBlob, capturer.saveUrl: chrome.downloads.download is called;
\* its callback is awaited.  cont is the caller that awaits the saved filename.
NewDownload(timeId, cont, kind, directory, filename, sourceUrl, autoErase, savePrompt) ==
  [st |-> "requested", reported |-> "none", timeId |-> timeId, cont |-> cont, kind |-> kind,
   path |-> (IF directory # <<>> THEN directory \o <<"/">> ELSE <<>>) \o filename,
   src |-> sourceUrl, autoErase |-> autoErase, savePrompt |-> savePrompt]

(***************************************************************************)
(* Promises across calls                                                   *)
(***************************************************************************)
\* the state of the promise a reference <<"req", r>> or <<"doc", d>> names
PromiseAt(pr, dc, ref) ==
  IF ref[1] = "req" THEN pr[ref[2]] ELSE dc[ref[2]].result

\* captureFile for a frame that is not the main frame: what it makes of
\* downloadFile's response
CaptureFileResult(response) ==
  [url |-> response.url, filename |-> response.filename, error |-> None]

\* what a caller holding the promise ref observes
RECURSIVE Outcome(_, _, _, _)
Outcome(pr, dc, ref, seen) ==
  LET p == PromiseAt(pr, dc, ref)
  IN IF ref \in seen THEN Pending
     ELSE IF p.st = "follows" THEN Outcome(pr, dc, p.to, seen \cup {ref})
     ELSE IF p.st = "captureFile"
          THEN LET o == Outcome(pr, dc, p.to, seen \cup {ref})
               IN IF o.st = "fulfilled" THEN Fulfilled(CaptureFileResult(o.val)) ELSE o
     ELSE p

Observed(ref) == Outcome(promise, docs, ref, {})

(***************************************************************************)
(* saveDocument                                                            *)
(***************************************************************************)
\* the number of saveDocument, downloadBlob and captureBookmark calls
MaxDocs == 2

Mime_html == "text/html"
Mime_xhtml == "application/xhtml+xml"

NoDoc ==
  [op |-> "none", main |-> FALSE, documentName |-> <<>>, mime |-> Mime_html,
   title |-> None, sourceUrl |-> <<>>, st |-> "none", result |-> NoPromise,
   archive |-> None, blob |-> None]

\* "." + ((data.mime === "application/xhtml+xml") ? "xhtml" : "html")
DocumentExt(mime) == IF mime = Mime_xhtml THEN Str_xhtml ELSE Str_html

\* filename.endsWith(ext)
EndsWith(s, ext) ==
  Len(s) >= Len(ext) /\ SubSeq(s, Len(s) - Len(ext) + 1, Len(s)) = ext

\* the name of the file a capture is saved as when it is not saved in the
\* scrapbook folder: the title, or else the name the URL gives
TitleFilename(title, sourceUrl) ==
  validateFilename(IF title # None /\ title[1] # <<>> THEN title[1]
                   ELSE urlToFilename(sourceUrl))

\* saveDocument, case "singleHtml", main frame: [targetDir, filename, savePrompt]
SingleFileTarget(timeId, ext, title, sourceUrl) ==
  IF options.saveInScrapbook
  THEN [targetDir |-> DataDir, filename |-> timeId \o ext, savePrompt |-> FALSE]
  ELSE [targetDir |-> <<>>,
        filename |-> IF EndsWith(TitleFilename(title, sourceUrl), ext)
                     THEN TitleFilename(title, sourceUrl)
                     ELSE TitleFilename(title, sourceUrl) \o ext,
        savePrompt |-> TRUE]

\* (a variant that asks for the prompt whatever the target is)
ArchiveTargetPrompts(timeId, ext, title, sourceUrl) ==
  IF options.saveInScrapbook
  THEN [targetDir |-> DataDir, filename |-> timeId \o ext, savePrompt |-> TRUE]
  ELSE [targetDir |-> <<>>, filename |-> TitleFilename(title, sourceUrl) \o ext,
        savePrompt |-> TRUE]

\* saveDocument, cases "zip" and "maff", after generateAsync:
\* [targetDir, filename, savePrompt] of the archive file
ArchiveTarget(timeId, ext, title, sourceUrl) ==
  IF options.saveInScrapbook
  THEN [targetDir |-> DataDir, filename |-> timeId \o ext, savePrompt |-> FALSE]
  ELSE [targetDir |-> <<>>, filename |-> TitleFilename(title, sourceUrl) \o ext,
        savePrompt |-> TRUE]

Str_htz == <<".","h","t","z">>
Str_maff == <<".","m","a","f","f">>
ArchiveExt(mode) == IF mode = "maff" THEN Str_maff ELSE Str_htz

\* scrapbook.stringToDataUri(data.content, data.mime, data.charset)
stringToDataUri(content, mime) == <<"data:", mime, ",">> \o content

\* the serialized document the in-page agent hands over
DocContent == <<"c">>
DocBlob(mime) == [type |-> mime, size |-> 1, bytes |-> DocContent]

\* '<meta charset="UTF-8"><meta http-equiv="refresh" content="0;url=index.xhtml">'
\* (77 characters)
StubBlob == [type |-> Mime_html, size |-> 77, bytes |-> <<"r">>]
\* the file the stub's refresh names: url=index.xhtml
StubTarget == Str_index_xhtml
StubMeta == Some([target |-> StubTarget])

\* scrapbook.escapeHtml: & < > " become character references
RECURSIVE escapeHtml(_)
escapeHtml(str) ==
  IF str = <<>> THEN <<>>
  ELSE (CASE Head(str) = "&" -> <<"&","a","m","p",";">>
          [] Head(str) = "<" -> <<"&","l","t",";">>
          [] Head(str) = ">" -> <<"&","g","t",";">>
          [] Head(str) = "\"" -> <<"&","q","u","o","t",";">>
          [] OTHER -> <<Head(str)>>) \o escapeHtml(Tail(str))

\* the index.rdf of a maff archive: what it records
\* the rdfContent template (463 characters without the values filled in)
RdfBlob == [type |-> "application/rdf+xml", size |-> 463, bytes |-> <<"m">>]
\* (a variant that records the canonical index name whatever the document is)
RdfMetaCanonical(sourceUrl, title, filename) ==
  Some([originalurl |-> escapeHtml(sourceUrl), title |-> title,
        indexfilename |-> Str_index_html])

RdfMeta(sourceUrl, title, filename) ==
  Some([originalurl |-> escapeHtml(sourceUrl), title |-> title, indexfilename |-> filename])

\* saveDocument, cases "zip" and "maff": the zip.file calls, in order
DocumentEntries(zip, mode, timeId, main, filename, mime, sourceUrl, title) ==
  LET z1 == ZipFile(zip, ZipPath(mode, timeId, filename), DocBlob(mime), "DEFLATE", None)
      z2 == IF main /\ DocumentExt(mime) = Str_xhtml
            THEN ZipFile(z1, ZipPath(mode, timeId, Str_index_html), StubBlob, "DEFLATE", StubMeta)
            ELSE z1
      z3 == IF main /\ mode = "maff"
            THEN ZipFile(z2, ZipPath(mode, timeId, Str_index_rdf), RdfBlob, "DEFLATE",
                         RdfMeta(sourceUrl, title, filename))
            ELSE z2
  IN z3

\* (a variant that hands over the whole path)
FinalFilenameWithDir(path) == path

\* scrapbook.filepathParts(results[0].filename)[1]: the part after the last "/"
FinalFilename(path) == SubSeq(path, LastIndexOf(path, "/") + 1, Len(path))

\* (a variant in which a frame's document also finalizes the archive)
FinalizesAlways(main) == TRUE

\* saveDocument, cases "zip" and "maff": if (!settings.frameIsMain) return the
\* entry's name; else zip.generateAsync is called
Finalizes(main) == main

\* capturer.saveDocument(params): the part that runs at once.  The call is
\* docs[Len(docs) + 1]; its promise is <<"doc", Len(docs) + 1>>.
SaveDocument(main, documentName, mime, title, sourceUrl) ==
  LET d == Len(docs) + 1
      mode == options.saveAs
      ext == DocumentExt(mime)
      filename == validateFilename(documentName \o ext)
      call == [NoDoc EXCEPT !.op = "saveDocument", !.main = main,
                            !.documentName = documentName, !.mime = mime,
                            !.title = title, !.sourceUrl = sourceUrl,
                            !.result = Pending]
      single == SingleFileTarget(TimeId, ext, title, sourceUrl)
      entries == DocumentEntries(ZipOf(captureInfo, TimeId), mode, TimeId, main,
                                 filename, mime, sourceUrl, title)
  IN CASE mode = "singleHtml" /\ ~main ->
            /\ docs' = Append(docs,
                 [call EXCEPT !.st = "done",
                    !.result = Fulfilled([url |-> stringToDataUri(DocContent, mime),
                                          filename |-> None, error |-> None])])
            /\ UNCHANGED <<captureInfo, downloads>>
       [] mode = "singleHtml" /\ main ->
            /\ docs' = Append(docs, [call EXCEPT !.st = "saving"])
            /\ downloads' = Append(downloads,
                 NewDownload(TimeId, <<"doc", d>>, "document", single.targetDir,
                             single.filename, sourceUrl, FALSE, single.savePrompt))
            /\ UNCHANGED captureInfo
       [] mode \in {"zip", "maff"} ->
            /\ captureInfo' = [EnsureSession(captureInfo, TimeId) EXCEPT
                                 ![TimeId].zip = Some(entries)]
            /\ docs' = Append(docs,
                 IF Finalizes(main)
                 THEN [call EXCEPT !.st = "generating", !.archive = Some(entries)]
                 ELSE [call EXCEPT !.st = "done",
                         !.result = Fulfilled(FileResult(filename, sourceUrl))])
            /\ UNCHANGED downloads
       [] OTHER ->
            /\ docs' = Append(docs, [call EXCEPT !.st = "saving"])
            /\ downloads' = Append(downloads,
                 NewDownload(TimeId, <<"doc", d>>, "document", FolderDir(TimeId), filename,
                             sourceUrl, ~main \/ ext = Str_xhtml, FALSE))
            /\ UNCHANGED captureInfo

\* zip.generateAsync({type: "blob"}) settles: capturer.saveBlob of the
\* archive, or the catch handler of saveDocument
ArchiveGenerated(d, ok) ==
  /\ d \in 1..Len(docs)
  /\ docs[d].st = "generating"
  /\ LET target == ArchiveTarget(TimeId, ArchiveExt(options.saveAs), docs[d].title,
                                 docs[d].sourceUrl)
     IN IF ok
        THEN /\ docs' = [docs EXCEPT ![d].st = "saving"]
             /\ downloads' = Append(downloads,
                  NewDownload(TimeId, <<"doc", d>>, "archive", target.targetDir,
                              target.filename, docs[d].sourceUrl, FALSE, target.savePrompt))
        ELSE /\ docs' = [docs EXCEPT ![d].st = "done",
                           ![d].result = Failure(docs[d].sourceUrl, "generate error")]
             /\ UNCHANGED downloads
  /\ UNCHANGED <<captureInfo, returned, options, accessMaps, req, promise, downloadInfo, tab>>

\* a saveDocument call of the in-page agent
SaveDocumentCall(main, documentName, mime, title, sourceUrl) ==
  /\ Len(docs) < MaxDocs
  /\ main => \A d \in 1..Len(docs) : ~(docs[d].op = "saveDocument" /\ docs[d].main)
  /\ SaveDocument(main, documentName, mime, title, sourceUrl)
  /\ UNCHANGED <<returned, options, accessMaps, req, promise, downloadInfo, tab>>

\* a downloadBlob call of the in-page agent
DownloadBlobCall(blob, filename, sourceUrl) ==
  LET d == Len(docs) + 1
      call == [NoDoc EXCEPT !.op = "downloadBlob", !.documentName = filename,
                            !.sourceUrl = sourceUrl, !.result = Pending,
                            !.blob = Some(blob)]
  IN /\ Len(docs) < MaxDocs
     /\ CASE options.saveAs = "singleHtml" ->
               /\ docs' = Append(docs,
                    [call EXCEPT !.st = "done",
                       !.result = Fulfilled(DataUriResult(blob, filename, sourceUrl))])
               /\ UNCHANGED <<captureInfo, downloads>>
          [] options.saveAs \in {"zip", "maff"} ->
               /\ captureInfo' =
                    WithZipEntry(captureInfo, options.saveAs, TimeId, filename, blob)
               /\ docs' = Append(docs,
                    [call EXCEPT !.st = "done",
                       !.result = Fulfilled(FileResult(filename, sourceUrl))])
               /\ UNCHANGED downloads
          [] OTHER ->
               /\ docs' = Append(docs, [call EXCEPT !.st = "saving"])
               /\ downloads' = Append(downloads,
                    NewDownload(TimeId, <<"doc", d>>, "resource", FolderDir(TimeId), filename,
                                sourceUrl, TRUE, FALSE))
               /\ UNCHANGED captureInfo
     /\ UNCHANGED <<returned, options, accessMaps, req, promise, downloadInfo, tab>>

(***************************************************************************)
(* The fetch pipeline: downloadFile and captureUrl                         *)
(***************************************************************************)
Called(op, url, method, mapId, main, documentName) ==
  [NoReq EXCEPT !.op = op, !.url = url, !.method = method, !.map = mapId,
                !.main = main, !.documentName = documentName]

\* the body of capturer.downloadFile(params) as call r, on a session registry,
\* access maps, calls and promises: what they are after it
DownloadFileBody(info0, maps0, rq, pr, r, url, method) ==
  LET sourceUrlMain == UrlMain(url)
      mapId == AccessMapId(info0, maps0, TimeId)
      info == WithAccessMap(info0, maps0, TimeId)
      maps == MapsWithAccessMap(info0, maps0, TimeId)
      accessToken == getAccessToken(sourceUrlMain, method)
      called == Called("downloadFile", url, method, mapId, FALSE, None)
      bound == [maps EXCEPT ![mapId] = MapSet(@, accessToken, <<"req", r>>)]
      file == dataUriToFile(sourceUrlMain)
      files == FilesOf(info, TimeId)
      name == validateFilename(file[1].name)
  IN IF accessToken \in DOMAIN maps[mapId]
     THEN \* if (accessPrevious) { return accessPrevious; }
          [captureInfo |-> info, accessMaps |-> maps,
           req |-> [rq EXCEPT ![r] = [called EXCEPT !.pc = "previous"]],
           promise |-> [pr EXCEPT ![r] = ResolvedTo(maps[mapId][accessToken])]]
     ELSE IF ~StartsWithData(sourceUrlMain)
     THEN \* scrapbook.xhr({url: sourceUrl, responseType: "blob", ...})
          [captureInfo |-> info, accessMaps |-> bound,
           req |-> [rq EXCEPT ![r] = [called EXCEPT !.xhr = "sent", !.pc = "fetching"]],
           promise |-> [pr EXCEPT ![r] = Pending]]
     ELSE IF ~(options.saveDataUriAsFile /\ options.saveAs # "singleHtml")
     THEN \* resolve({url: sourceUrl})
          [captureInfo |-> info, accessMaps |-> bound,
           req |-> [rq EXCEPT ![r] = [called EXCEPT !.pc = "done"]],
           promise |-> [pr EXCEPT ![r] = Fulfilled(PassResult(url))]]
     ELSE IF file = None
     THEN \* reject(new Error("Malformed data URL."))
          [captureInfo |-> info, accessMaps |-> bound,
           req |-> [rq EXCEPT ![r] = [called EXCEPT !.pc = "done", !.failed = TRUE]],
           promise |-> [pr EXCEPT ![r] = Failure(url, "Malformed data URL.")]]
     ELSE [captureInfo |-> SetFiles(info, TimeId, FilesAfterUnique(files, name)),
           accessMaps |-> bound,
           req |-> [rq EXCEPT ![r] =
                      [called EXCEPT !.pc = "rewriting", !.allocs = 1,
                                     !.filename = Some(UniqueFilename(files, name)),
                                     !.blob = Some(file[1].blob)]],
           promise |-> [pr EXCEPT ![r] = Pending]]

\* the next call takes the first free place
FreeReq(r) ==
  /\ req[r].op = "none"
  /\ \A q \in Reqs : q < r => req[q].op # "none"

\* capturer.downloadFile(params), called by the in-page agent
DownloadFile(r, url, method) ==
  /\ FreeReq(r)
  /\ LET after == DownloadFileBody(captureInfo, accessMaps, req, promise, r, url, method)
     IN /\ captureInfo' = after.captureInfo
        /\ accessMaps' = after.accessMaps
        /\ req' = after.req
        /\ promise' = after.promise
  /\ UNCHANGED <<returned, options, downloads, downloadInfo, docs, tab>>

\* the body of capturer.captureUrl(params) as call r
CaptureUrlBody(info0, maps0, rq, pr, r, url, main, documentName) ==
  LET sourceUrlMain == UrlMain(url)
      mapId == AccessMapId(info0, maps0, TimeId)
      info == WithAccessMap(info0, maps0, TimeId)
      maps == MapsWithAccessMap(info0, maps0, TimeId)
      accessToken == getAccessToken(sourceUrlMain, Method_captureUrl)
      called == Called("captureUrl", url, Method_captureUrl, mapId, main, documentName)
  IN IF accessToken \in DOMAIN maps[mapId]
     THEN [captureInfo |-> info, accessMaps |-> maps,
           req |-> [rq EXCEPT ![r] = [called EXCEPT !.pc = "previous"]],
           promise |-> [pr EXCEPT ![r] = ResolvedTo(maps[mapId][accessToken])]]
     ELSE [captureInfo |-> info,
           accessMaps |-> [maps EXCEPT ![mapId] = MapSet(@, accessToken, <<"req", r>>)],
           req |-> [rq EXCEPT ![r] = [called EXCEPT !.xhr = "sent", !.pc = "fetching"]],
           promise |-> [pr EXCEPT ![r] = Pending]]

\* capturer.captureUrl(params), called by the in-page agent for a frame
CaptureUrl(r, url, documentName) ==
  /\ FreeReq(r)
  /\ LET after == CaptureUrlBody(captureInfo, accessMaps, req, promise, r, url, FALSE,
                                 documentName)
     IN /\ captureInfo' = after.captureInfo
        /\ accessMaps' = after.accessMaps
        /\ req' = after.req
        /\ promise' = after.promise
  /\ UNCHANGED <<returned, options, downloads, downloadInfo, docs, tab>>

\* (a variant that takes over only a result that has been settled)
RedirectedToSettled(accessMap, sourceUrlMain, responseUrlMain, method) ==
  /\ responseUrlMain # sourceUrlMain
  /\ getAccessToken(responseUrlMain, method) \in DOMAIN accessMap
  /\ promise[accessMap[getAccessToken(responseUrlMain, method)][2]].st # "pending"

\* (a variant of the redirect check that never finds a previous access)
RedirectedToPreviousNever(accessMap, sourceUrlMain, responseUrlMain, method) == FALSE

\* onreadystatechange, "check for previous access if redirected":
\* responseUrlMain !== sourceUrlMain and accessMap.get(accessToken) is set
RedirectedToPrevious(accessMap, sourceUrlMain, responseUrlMain, method) ==
  /\ responseUrlMain # sourceUrlMain
  /\ getAccessToken(responseUrlMain, method) \in DOMAIN accessMap

\* (a variant that does not bind the token of the response URL)
WithRedirectBoundNever(maps, mapId, sourceUrlMain, responseUrlMain, method, r) == maps

\* accessMap.set(accessToken, accessCurrent) of a redirected request
WithRedirectBound(maps, mapId, sourceUrlMain, responseUrlMain, method, r) ==
  IF responseUrlMain # sourceUrlMain
  THEN [maps EXCEPT ![mapId] =
          MapSet(@, getAccessToken(responseUrlMain, method), <<"req", r>>)]
  ELSE maps

\* (a variant that makes the filename unique before it looks at the redirect)
DownloadFileHeadersNamedFirst(r, responseUrl, headers) ==
  /\ req[r].op = "downloadFile"
  /\ req[r].xhr = "sent"
  /\ LET sourceUrl == req[r].url
         sourceUrlMain == UrlMain(sourceUrl)
         responseUrlMain == UrlMain(responseUrl)
         accessMap == accessMaps[req[r].map]
         name == HeaderFilename(sourceUrl, headers)
         files == FilesOf(captureInfo, TimeId)
     IN /\ captureInfo' = IF options.saveAs # "singleHtml"
                          THEN SetFiles(captureInfo, TimeId, FilesAfterUnique(files, name))
                          ELSE captureInfo
        /\ IF RedirectedToPrevious(accessMap, sourceUrlMain, responseUrlMain, req[r].method)
           THEN /\ promise' = [promise EXCEPT ![r] =
                     ResolvedTo(accessMap[getAccessToken(responseUrlMain, req[r].method)])]
                /\ req' = [req EXCEPT ![r].xhr = "aborted", ![r].pc = "done",
                                      ![r].responseUrl = Some(responseUrl)]
                /\ UNCHANGED accessMaps
           ELSE /\ accessMaps' = WithRedirectBound(accessMaps, req[r].map, sourceUrlMain,
                                                   responseUrlMain, req[r].method, r)
                /\ req' = [req EXCEPT ![r].xhr = "headers",
                              ![r].responseUrl = Some(responseUrl),
                              ![r].allocs = IF options.saveAs # "singleHtml" THEN @ + 1 ELSE @,
                              ![r].filename =
                                 Some(IF options.saveAs # "singleHtml"
                                      THEN UniqueFilename(files, name) ELSE name)]
                /\ UNCHANGED promise
  /\ UNCHANGED <<returned, options, downloads, downloadInfo, docs, tab>>

\* onreadystatechange with readyState 2 of downloadFile's request
DownloadFileHeaders(r, responseUrl, headers) ==
  /\ req[r].op = "downloadFile"
  /\ req[r].xhr = "sent"
  /\ LET sourceUrl == req[r].url
         sourceUrlMain == UrlMain(sourceUrl)
         responseUrlMain == UrlMain(responseUrl)
         accessMap == accessMaps[req[r].map]
         name == HeaderFilename(sourceUrl, headers)
         files == FilesOf(captureInfo, TimeId)
     IN IF RedirectedToPrevious(accessMap, sourceUrlMain, responseUrlMain, req[r].method)
        THEN \* resolve(accessPrevious); xhrAbort(); return;
             /\ promise' = [promise EXCEPT ![r] =
                  ResolvedTo(accessMap[getAccessToken(responseUrlMain, req[r].method)])]
             /\ req' = [req EXCEPT ![r].xhr = "aborted", ![r].pc = "done",
                                   ![r].responseUrl = Some(responseUrl)]
             /\ UNCHANGED <<captureInfo, accessMaps>>
        ELSE /\ accessMaps' = WithRedirectBound(accessMaps, req[r].map, sourceUrlMain,
                                                responseUrlMain, req[r].method, r)
             /\ IF options.saveAs # "singleHtml"
                THEN /\ captureInfo' =
                          SetFiles(captureInfo, TimeId, FilesAfterUnique(files, name))
                     /\ req' = [req EXCEPT ![r].xhr = "headers",
                                   ![r].responseUrl = Some(responseUrl),
                                   ![r].allocs = @ + 1,
                                   ![r].filename = Some(UniqueFilename(files, name))]
                ELSE /\ req' = [req EXCEPT ![r].xhr = "headers",
                                   ![r].responseUrl = Some(responseUrl),
                                   ![r].filename = Some(name)]
                     /\ UNCHANGED captureInfo
             /\ UNCHANGED promise
  /\ UNCHANGED <<returned, options, downloads, downloadInfo, docs, tab>>

\* Mime.prototype.lookup(filename): the type the extension stands for
MimeLookup(filename) ==
  LET ext == toLowerCase(filenameParts(filename)[2])
  IN CASE ext \in {<<"h","t","m","l">>, <<"h","t","m">>} -> Some(Mime_html)
       [] ext \in {<<"x","h","t","m","l">>, <<"x","h","t">>} -> Some(Mime_xhtml)
       [] ext = <<"c","s","s">> -> Some("text/css")
       [] OTHER -> None

\* Mime.prototype.allExtensions(mime), each with its dot
AllExtensions(mime) ==
  IF mime = Mime_html THEN <<Str_html, <<".","h","t","m">>>>
  ELSE IF mime = Mime_xhtml THEN <<Str_xhtml, <<".","x","h","t">>>>
  ELSE <<>>

\* captureUrl, "generate a documentName if not specified": None when the
\* expression reads .name of null
GeneratedDocumentName(sourceUrl, headers) ==
  LET named == headers.filename # None /\ headers.filename[1] # <<>>
      file == dataUriToFile(UrlMain(sourceUrl))
      \* headers.filename || sourceUrl.startsWith("data:") ? ... : ...
      filename == IF named \/ StartsWithData(sourceUrl)
                  THEN (IF file = None THEN None ELSE Some(file[1].name))
                  ELSE Some(urlToFilename(sourceUrl))
      mime == IF headers.contentType # None THEN headers.contentType[1]
              ELSE IF MimeLookup(filename[1]) # None THEN MimeLookup(filename[1])[1]
              ELSE Mime_html
      exts == AllExtensions(mime)
      hits == {i \in 1..Len(exts) : EndsWith(toLowerCase(filename[1]), exts[i])}
      first == CHOOSE i \in hits : \A j \in hits : i <= j
  IN IF filename = None THEN None
     ELSE IF hits # {}
     THEN Some(SubSeq(filename[1], 1, Len(filename[1]) - Len(exts[first])))
     ELSE filename

\* onreadystatechange with readyState 2 of captureUrl's request
CaptureUrlHeaders(r, responseUrl, headers) ==
  /\ req[r].op = "captureUrl"
  /\ req[r].xhr = "sent"
  /\ LET sourceUrl == req[r].url
         sourceUrlMain == UrlMain(sourceUrl)
         responseUrlMain == UrlMain(responseUrl)
         accessMap == accessMaps[req[r].map]
     IN IF RedirectedToPrevious(accessMap, sourceUrlMain, responseUrlMain, req[r].method)
        THEN /\ promise' = [promise EXCEPT ![r] =
                  ResolvedTo(accessMap[getAccessToken(responseUrlMain, req[r].method)])]
             /\ req' = [req EXCEPT ![r].xhr = "aborted", ![r].pc = "done",
                                   ![r].responseUrl = Some(responseUrl)]
             /\ UNCHANGED accessMaps
        ELSE /\ accessMaps' = WithRedirectBound(accessMaps, req[r].map, sourceUrlMain,
                                                responseUrlMain, req[r].method, r)
             /\ req' = [req EXCEPT ![r].xhr = "headers",
                           ![r].responseUrl = Some(responseUrl),
                           ![r].documentName =
                              IF req[r].documentName # None /\ req[r].documentName[1] # <<>>
                              THEN @ ELSE GeneratedDocumentName(sourceUrl, headers)]
             /\ UNCHANGED promise
  /\ UNCHANGED <<captureInfo, returned, options, downloads, downloadInfo, docs, tab>>

\* onload of downloadFile's request: the rewrite and downloadBlob follow
DownloadFileLoad(r, blob) ==
  /\ req[r].op = "downloadFile"
  /\ req[r].xhr = "headers"
  /\ req' = [req EXCEPT ![r].xhr = "loaded", ![r].pc = "rewriting", ![r].blob = Some(blob)]
  /\ UNCHANGED <<captureInfo, returned, options, accessMaps, promise, downloads,
                 downloadInfo, docs, tab>>

\* onerror of a request: reject, caught by accessCurrent's catch handler
XhrError(r) ==
  /\ req[r].xhr \in {"sent", "headers"}
  /\ req' = [req EXCEPT ![r].xhr = "error", ![r].pc = "done", ![r].failed = TRUE]
  /\ promise' = [promise EXCEPT ![r] = Failure(req[r].url, "xhr error")]
  /\ UNCHANGED <<captureInfo, returned, options, accessMaps, downloads, downloadInfo,
                 docs, tab>>

\* capturer.downloadBlob called by downloadFile's call r: what it does to the
\* session, to the promise of r and to the downloads
DownloadBlob(r, blob, filename, sourceUrl) ==
  CASE options.saveAs = "singleHtml" ->
         /\ promise' = [promise EXCEPT ![r] = Fulfilled(DataUriResult(blob, filename, sourceUrl))]
         /\ req' = [req EXCEPT ![r].pc = "done", ![r].blob = None]
         /\ UNCHANGED <<captureInfo, downloads>>
    [] options.saveAs \in {"zip", "maff"} ->
         /\ captureInfo' = WithZipEntry(captureInfo, options.saveAs, TimeId, filename, blob)
         /\ promise' = [promise EXCEPT ![r] = Fulfilled(FileResult(filename, sourceUrl))]
         /\ req' = [req EXCEPT ![r].pc = "done", ![r].blob = None]
         /\ UNCHANGED downloads
    [] OTHER ->
         /\ downloads' = Append(downloads,
              NewDownload(TimeId, <<"req", r>>, "resource", FolderDir(TimeId), filename,
                          sourceUrl, TRUE, FALSE))
         /\ req' = [req EXCEPT ![r].pc = "saving", ![r].blob = None]
         /\ UNCHANGED <<captureInfo, promise>>

\* the continuation of onload (and of a data URL saved as a file): the rewrite
\* function of the method, then capturer.downloadBlob
RewriteAndSave(r, rewritten) ==
  /\ req[r].op = "downloadFile"
  /\ req[r].pc = "rewriting"
  /\ IF req[r].method # Method_none /\ ~rewritten
     THEN /\ promise' = [promise EXCEPT ![r] = Failure(req[r].url, "rewrite error")]
          /\ req' = [req EXCEPT ![r].pc = "done", ![r].blob = None, ![r].failed = TRUE]
          /\ UNCHANGED <<captureInfo, downloads>>
     ELSE DownloadBlob(r, req[r].blob[1], req[r].filename[1], req[r].url)
  /\ UNCHANGED <<returned, options, accessMaps, downloadInfo, docs, tab>>

\* "undefined" + ext: the name of a document whose documentName is not set
Str_undefined == <<"u","n","d","e","f","i","n","e","d">>
NameOrUndefined(documentName) ==
  IF documentName = None THEN Str_undefined ELSE documentName[1]

\* onload of captureUrl's request
CaptureUrlLoad(r, hasDoc) ==
  /\ req[r].op = "captureUrl"
  /\ req[r].xhr = "headers"
  /\ IF hasDoc
     THEN \* resolve(capturer.captureDocumentOrFile({doc: doc, ...}))
          /\ req' = [req EXCEPT ![r].xhr = "loaded", ![r].pc = "capturing"]
          /\ UNCHANGED <<captureInfo, accessMaps, promise>>
     ELSE \* resolve(capturer.captureFile({url: params.url, ...}))
          \E q \in Reqs :
            /\ FreeReq(q)
            /\ LET after == DownloadFileBody(captureInfo, accessMaps,
                              [req EXCEPT ![r].xhr = "loaded",
                                          ![r].pc = IF req[r].main THEN "captureFile"
                                                    ELSE "done",
                                          ![r].child = q],
                              promise, q, req[r].url, Method_none)
               IN /\ captureInfo' = after.captureInfo
                  /\ accessMaps' = after.accessMaps
                  /\ req' = after.req
                  /\ promise' = IF req[r].main THEN after.promise
                                ELSE [after.promise EXCEPT ![r] =
                                        [st |-> "captureFile", to |-> <<"req", q>>,
                                         val |-> NoResult]]
  /\ UNCHANGED <<returned, options, downloads, downloadInfo, docs, tab>>

\* capturer.captureFile for the main frame, once downloadFile has answered:
\* an index.html that redirects to the file is saved as the document
CaptureFileSave(r) ==
  /\ req[r].op = "captureUrl"
  /\ req[r].pc = "captureFile"
  /\ Observed(<<"req", req[r].child>>).st = "fulfilled"
  /\ Len(docs) < MaxDocs
  /\ SaveDocument(TRUE, NameOrUndefined(req[r].documentName), Mime_html, None, req[r].url)
  /\ req' = [req EXCEPT ![r].pc = "done"]
  /\ promise' = [promise EXCEPT ![r] = ResolvedTo(<<"doc", Len(docs) + 1>>)]
  /\ UNCHANGED <<returned, options, accessMaps, downloadInfo, tab>>

\* capturer.captureDocumentOrFile of a loaded document comes to its
\* saveDocument call
CaptureDocumentSave(r, mime) ==
  /\ req[r].op = "captureUrl"
  /\ req[r].pc = "capturing"
  /\ Len(docs) < MaxDocs
  /\ SaveDocument(req[r].main, NameOrUndefined(req[r].documentName), mime, None, req[r].url)
  /\ req' = [req EXCEPT ![r].pc = "done"]
  /\ promise' = [promise EXCEPT ![r] = ResolvedTo(<<"doc", Len(docs) + 1>>)]
  /\ UNCHANGED <<returned, options, accessMaps, downloadInfo, tab>>

(***************************************************************************)
(* captureBookmark                                                         *)
(***************************************************************************)
Str_htm == <<".","h","t","m">>

\* capturer.captureBookmark(params): scrapbook.xhr is called
CaptureBookmarkBody(sourceUrl) ==
  Append(docs, [NoDoc EXCEPT !.op = "captureBookmark", !.main = TRUE,
                             !.sourceUrl = sourceUrl, !.st = "fetching",
                             !.result = Pending])

\* capturer.captureBookmark(params), called with a message
CaptureBookmarkCall(sourceUrl) ==
  /\ Len(docs) < MaxDocs
  /\ docs' = CaptureBookmarkBody(sourceUrl)
  /\ UNCHANGED <<captureInfo, returned, options, accessMaps, req, promise, downloads,
                 downloadInfo, tab>>

\* onload of captureBookmark's request: the bookmark page is saved
BookmarkLoad(d, title) ==
  /\ d \in 1..Len(docs)
  /\ docs[d].op = "captureBookmark"
  /\ docs[d].st = "fetching"
  /\ LET target == SingleFileTarget(TimeId, Str_htm, title, docs[d].sourceUrl)
     IN downloads' = Append(downloads,
          NewDownload(TimeId, <<"doc", d>>, "document", target.targetDir, target.filename,
                      docs[d].sourceUrl, FALSE, target.savePrompt))
  /\ docs' = [docs EXCEPT ![d].st = "saving", ![d].title = title]
  /\ UNCHANGED <<captureInfo, returned, options, accessMaps, req, promise, downloadInfo, tab>>

\* onerror of captureBookmark's request: reject, caught at the end of the chain
BookmarkError(d) ==
  /\ d \in 1..Len(docs)
  /\ docs[d].op = "captureBookmark"
  /\ docs[d].st = "fetching"
  /\ docs' = [docs EXCEPT ![d].st = "done",
                          ![d].result = Failure(docs[d].sourceUrl, "xhr error")]
  /\ UNCHANGED <<captureInfo, returned, options, accessMaps, req, promise, downloads,
                 downloadInfo, tab>>

(***************************************************************************)
(* The download coordinator: saveUrl and chrome.downloads.onChanged        *)
(***************************************************************************)
\* saveDocument, case "folder": after the main document index.xhtml is saved,
\* an index.html that redirects to it is saved
NeedsStub(cont) ==
  /\ cont[1] = "doc"
  /\ docs[cont[2]].op = "saveDocument"
  /\ docs[cont[2]].st = "saving"
  /\ options.saveAs = "folder"
  /\ docs[cont[2]].main
  /\ DocumentExt(docs[cont[2]].mime) = Str_xhtml

StubDownload(cont) ==
  NewDownload(TimeId, cont, "stub", FolderDir(TimeId), Str_index_html,
              docs[cont[2]].sourceUrl, FALSE, FALSE)

\* onComplete(filename), the resolve of saveUrl's promise, reaches the caller
\* of saveBlob
ContinueComplete(cont, filename, sourceUrl) ==
  IF cont[1] = "req"
  THEN /\ promise' = [promise EXCEPT ![cont[2]] = Fulfilled(FileResult(filename, sourceUrl))]
       /\ req' = [req EXCEPT ![cont[2]].pc = "done"]
       /\ UNCHANGED docs
  ELSE /\ docs' = IF NeedsStub(cont)
                  THEN [docs EXCEPT ![cont[2]].st = "saving_stub"]
                  ELSE [docs EXCEPT ![cont[2]].st = "done",
                          ![cont[2]].result = Fulfilled(FileResult(filename, sourceUrl))]
       /\ UNCHANGED <<req, promise>>

\* onError(ex), the reject of saveUrl's promise, reaches the caller of
\* saveBlob: the catch handler of downloadFile, saveDocument or
\* captureBookmark; downloadBlob called on its own has none
ContinueError(cont, ex) ==
  IF cont[1] = "req"
  THEN /\ promise' = [promise EXCEPT ![cont[2]] = Failure(req[cont[2]].url, ex)]
       /\ req' = [req EXCEPT ![cont[2]].pc = "done", ![cont[2]].failed = TRUE]
       /\ UNCHANGED docs
  ELSE /\ docs' = [docs EXCEPT ![cont[2]].st = "done",
                     ![cont[2]].result =
                        IF docs[cont[2]].op = "downloadBlob" THEN Rejected(ex)
                        ELSE Failure(docs[cont[2]].sourceUrl, ex)]
       /\ UNCHANGED <<req, promise>>

\* the callback of chrome.downloads.download
DownloadStarted(h, accepted) ==
  /\ h \in 1..Len(downloads)
  /\ downloads[h].st = "requested"
  /\ downloads[h].reported # "none" => accepted
  /\ IF accepted
     THEN /\ downloadInfo' = MapSet(downloadInfo, h,
               [timeId |-> downloads[h].timeId, src |-> downloads[h].src,
                autoErase |-> downloads[h].autoErase])
          /\ downloads' = [downloads EXCEPT ![h].st = "in_progress"]
          /\ UNCHANGED <<promise, req, docs>>
     ELSE /\ downloads' = [downloads EXCEPT ![h].st = "refused"]
          /\ ContinueError(downloads[h].cont, "lastError")
          /\ UNCHANGED downloadInfo
  /\ UNCHANGED <<captureInfo, returned, options, accessMaps, tab>>

\* after the callback of the listener: erase the history entry when flagged,
\* then downloadInfo.delete(downloadId); reported is what the notification
\* said of the download
SettledDownloads(h, reported) ==
  [downloads EXCEPT ![h].st = IF downloadInfo[h].autoErase THEN "erasing" ELSE "gone",
                    ![h].reported = reported]

SettledInfo(h) ==
  IF downloadInfo[h].autoErase THEN downloadInfo ELSE MapDelete(downloadInfo, h)

\* chrome.downloads.onChanged with state.current === "complete":
\* chrome.downloads.search answers and its callback calls onComplete(filename)
DownloadComplete(h) ==
  /\ h \in 1..Len(downloads)
  /\ downloads[h].st = "in_progress"
  /\ downloads[h].reported = "none"
  /\ h \in DOMAIN downloadInfo
  /\ ContinueComplete(downloads[h].cont, FinalFilename(downloads[h].path), downloads[h].src)
  /\ downloads' = IF NeedsStub(downloads[h].cont)
                  THEN Append(SettledDownloads(h, "complete"),
                              StubDownload(downloads[h].cont))
                  ELSE SettledDownloads(h, "complete")
  /\ downloadInfo' = SettledInfo(h)
  /\ UNCHANGED <<captureInfo, returned, options, accessMaps, tab>>

\* chrome.downloads.onChanged with an error: onError(new Error(error.current))
DownloadFailed(h) ==
  /\ h \in 1..Len(downloads)
  /\ downloads[h].st = "in_progress"
  /\ downloads[h].reported = "none"
  /\ h \in DOMAIN downloadInfo
  /\ ContinueError(downloads[h].cont, "download error")
  /\ downloads' = SettledDownloads(h, "error")
  /\ downloadInfo' = SettledInfo(h)
  /\ UNCHANGED <<captureInfo, returned, options, accessMaps, tab>>

\* chrome.downloads.onChanged for a download whose id downloadInfo does not
\* hold yet, the callback of chrome.downloads.download not having run:
\* if (!downloadInfo.has(downloadId)) { return; }
DownloadChangedUnregistered(h, reported) ==
  /\ h \in 1..Len(downloads)
  /\ downloads[h].st = "requested"
  /\ downloads[h].reported = "none"
  /\ h \notin DOMAIN downloadInfo
  /\ downloads' = [downloads EXCEPT ![h].reported = reported]
  /\ UNCHANGED <<captureInfo, returned, options, accessMaps, req, promise, downloadInfo,
                 docs, tab>>

\* the callback of chrome.downloads.erase: downloadInfo.delete(downloadId)
DownloadErased(h) ==
  /\ h \in 1..Len(downloads)
  /\ downloads[h].st = "erasing"
  /\ downloads' = [downloads EXCEPT ![h].st = "gone"]
  /\ downloadInfo' = MapDelete(downloadInfo, h)
  /\ UNCHANGED <<captureInfo, returned, options, accessMaps, req, promise, docs, tab>>

(***************************************************************************)
(* captureTab                                                              *)
(***************************************************************************)
TabUrl == Url_b

\* "[" + tabId + "] " + tabUrl
TabSource == <<"[","1","]"," ">> \o TabUrl

\* scrapbook.lang("ErrorCapture", [source, ex.message])
ErrorCapture(source, message) == [source |-> source, message |-> message]

NoTab ==
  [st |-> "none", mode |-> "none", inner |-> <<"agent", 0>>, agent |-> NoPromise,
   chain |-> [kind |-> "none", val |-> NoResult, err |-> ErrorCapture(<<>>, "")],
   outer |-> NoPromise]

\* capturer.captureTab({tab, mode}): the executor of the returned promise and
\* the first step of the chain it starts
CaptureTab(mode) ==
  /\ tab.st = "none"
  /\ CASE mode = "bookmark" ->
            /\ Len(docs) < MaxDocs
            /\ docs' = CaptureBookmarkBody(TabUrl)
            /\ tab' = [tab EXCEPT !.st = "running", !.mode = mode, !.outer = Pending,
                                  !.inner = <<"doc", Len(docs) + 1>>]
            /\ UNCHANGED <<captureInfo, accessMaps, req, promise>>
       [] mode = "source" ->
            LET after == CaptureUrlBody(captureInfo, accessMaps, req, promise, 1, TabUrl,
                                        TRUE, Some(Str_index))
            IN /\ FreeReq(1)
               /\ captureInfo' = after.captureInfo
               /\ accessMaps' = after.accessMaps
               /\ req' = after.req
               /\ promise' = after.promise
               /\ tab' = [tab EXCEPT !.st = "running", !.mode = mode, !.outer = Pending,
                                     !.inner = <<"req", 1>>]
               /\ UNCHANGED docs
       [] OTHER ->
            \* capturer.invoke("captureDocumentOrFile", message, tabId)
            /\ tab' = [tab EXCEPT !.st = "running", !.mode = mode, !.outer = Pending,
                                  !.agent = Pending]
            /\ UNCHANGED <<captureInfo, accessMaps, req, promise, docs>>
  /\ UNCHANGED <<returned, options, downloads, downloadInfo>>

\* the main saveDocument call of the session
MainDocs == {d \in 1..Len(docs) : docs[d].op = "saveDocument" /\ docs[d].main}

\* the answer of the in-page agent to captureDocumentOrFile: nothing (the
\* content script is not ready), the result of its main saveDocument call, or
\* a failure of the message channel
AgentAnswers(kind) ==
  /\ tab.st = "running"
  /\ tab.inner = <<"agent", 0>>
  /\ tab.agent.st = "pending"
  /\ CASE kind = "undefined" ->
            tab' = [tab EXCEPT !.agent = [Pending EXCEPT !.st = "undefined"]]
       [] kind = "rejected" ->
            tab' = [tab EXCEPT !.agent = Rejected("no receiver")]
       [] OTHER ->
            \E d \in MainDocs :
              /\ docs[d].result.st = "fulfilled"
              /\ tab' = [tab EXCEPT !.agent = docs[d].result]
  /\ UNCHANGED <<captureInfo, returned, options, accessMaps, req, promise, downloads,
                 downloadInfo, docs>>

\* what the capture call of captureTab has come to
InnerOutcome ==
  IF tab.inner = <<"agent", 0>> THEN tab.agent ELSE Observed(tab.inner)

\* capturer.captureInfo.delete(timeId)
SessionDeleted(info, timeId) == [t \in DOMAIN info \ {timeId} |-> info[t]]

\* the handlers of captureTab's chain: .then((response) => ...) and
\* .catch((ex) => ...).  The promise captureTab returned is not touched: its
\* executor calls neither resolve nor reject.
CaptureTabResponse ==
  /\ tab.st = "running"
  /\ InnerOutcome.st \in {"fulfilled", "undefined", "rejected"}
  /\ LET o == InnerOutcome
     IN CASE o.st = "rejected" ->
               /\ tab' = [tab EXCEPT !.st = "finished",
                            !.chain = [kind |-> "error", val |-> NoResult,
                                       err |-> ErrorCapture(TabSource, o.val.error[1])]]
               /\ UNCHANGED captureInfo
          [] o.st = "undefined" ->
               /\ captureInfo' = SessionDeleted(captureInfo, TimeId)
               /\ tab' = [tab EXCEPT !.st = "finished",
                            !.chain = [kind |-> "error", val |-> NoResult,
                                       err |-> ErrorCapture(TabSource,
                                                            "ErrorContentScriptNotReady")]]
          [] o.st = "fulfilled" /\ o.val.error # None ->
               /\ captureInfo' = SessionDeleted(captureInfo, TimeId)
               /\ tab' = [tab EXCEPT !.st = "finished",
                            !.chain = [kind |-> "error", val |-> NoResult,
                                       err |-> ErrorCapture(TabSource, "ErrorCaptureGeneral")]]
          [] OTHER ->
               /\ captureInfo' = SessionDeleted(captureInfo, TimeId)
               /\ tab' = [tab EXCEPT !.st = "finished",
                            !.chain = [kind |-> "response", val |-> o.val,
                                       err |-> ErrorCapture(<<>>, "")]]
  /\ UNCHANGED <<returned, options, accessMaps, req, promise, downloads, downloadInfo, docs>>

(***************************************************************************)
(* The fetch pipeline of one session: the calls of the in-page agent       *)
(***************************************************************************)
\* the downloadFile calls of the in-page agent: [url, rewriteMethod]
Requests ==
  { <<Url_a_x, Method_none>>, <<Url_a_y, Method_none>>, <<Url_b, Method_none>>,
    <<Url_data, Method_none>>, <<Url_data_malformed, Method_none>> }

\* the captureUrl calls of the in-page agent: [url, settings.documentName]
FrameRequests == { <<Url_a_x, None>>, <<Url_b, Some(<<"f">>)>> }

DocumentMimes == {Mime_html, Mime_xhtml}

\* the types of the frames' documents
FrameMimes == {Mime_html}

Init ==
  /\ captureInfo = <<>>
  /\ returned = <<>>
  /\ options \in [saveAs : MemoryModes, saveDataUriAsFile : {TRUE},
                  saveInScrapbook : {TRUE}]
  /\ accessMaps = <<>>
  /\ req = [r \in Reqs |-> NoReq]
  /\ promise = [r \in Reqs |-> NoPromise]
  /\ downloads = <<>>
  /\ downloadInfo = EmptyMap
  /\ docs = <<>>
  /\ tab = NoTab

Next ==
  \/ \E r \in Reqs, p \in Requests : DownloadFile(r, p[1], p[2])
  \/ \E r \in Reqs, p \in FrameRequests : CaptureUrl(r, p[1], p[2])
  \/ \E r \in Reqs, responseUrl \in ResponseUrls, headers \in ResponseHeaders :
       DownloadFileHeaders(r, responseUrl, headers)
  \/ \E r \in Reqs, responseUrl \in ResponseUrls, headers \in ResponseHeaders :
       CaptureUrlHeaders(r, responseUrl, headers)
  \/ \E r \in Reqs, blob \in ResponseBlobs : DownloadFileLoad(r, blob)
  \/ \E r \in Reqs, hasDoc \in BOOLEAN : CaptureUrlLoad(r, hasDoc)
  \/ \E r \in Reqs : XhrError(r)
  \/ \E r \in Reqs, rewritten \in BOOLEAN : RewriteAndSave(r, rewritten)
  \/ \E r \in Reqs, mime \in FrameMimes : CaptureDocumentSave(r, mime)

vars ==
  <<captureInfo, returned, options, accessMaps, req, promise, downloads, downloadInfo,
    docs, tab>>

Spec == Init /\ [][Next]_vars

(***************************************************************************)
(* The packager of one session: saveDocument and downloadBlob calls        *)
(***************************************************************************)
\* the documents the in-page agent saves: [frameIsMain, documentName, mime, title]
Documents ==
  { <<TRUE, Str_index, Mime_html, Some(<<"T">>)>>,
    <<TRUE, Str_index, Mime_xhtml, None>>,
    <<TRUE, <<"p">>, Mime_xhtml, None>>,
    <<FALSE, Str_index \o <<"_","1">>, Mime_html, None>>,
    <<FALSE, Str_index \o <<"_","1">>, Mime_xhtml, None>> }

\* the URLs of the documents saved (both for a main frame of type text/html)
DocumentUrls(main, mime) ==
  IF main /\ mime = Mime_html THEN {Url_a_x, Url_amp} ELSE {Url_a_x}

\* the files the in-page agent saves with downloadBlob: [blob, filename]
Blobs ==
  { <<[type |-> "text/css", size |-> 200, bytes |-> <<"p">>], <<"a",".","c","s","s">>>>,
    <<[type |-> "text/css", size |-> 100, bytes |-> <<"p">>], <<"b",".","c","s","s">>>>,
    <<[type |-> "image/png", size |-> 200, bytes |-> <<"p">>], <<"a",".","p","n","g">>>> }

InitSave ==
  /\ captureInfo = <<>>
  /\ returned = <<>>
  /\ options \in [saveAs : SaveAsValues, saveDataUriAsFile : {FALSE},
                  saveInScrapbook : BOOLEAN]
  /\ accessMaps = <<>>
  /\ req = [r \in Reqs |-> NoReq]
  /\ promise = [r \in Reqs |-> NoPromise]
  /\ downloads = <<>>
  /\ downloadInfo = EmptyMap
  /\ docs = <<>>
  /\ tab = NoTab

NextSave ==
  \/ \E p \in Documents : \E u \in DocumentUrls(p[1], p[3]) :
       SaveDocumentCall(p[1], p[2], p[3], p[4], u)
  \/ \E p \in Blobs : DownloadBlobCall(p[1], p[2], Url_b)
  \/ \E d \in 1..Len(docs), ok \in BOOLEAN : ArchiveGenerated(d, ok)
  \/ \E h \in 1..Len(downloads), accepted \in BOOLEAN : DownloadStarted(h, accepted)
  \/ \E h \in 1..Len(downloads) : DownloadComplete(h)
  \/ \E h \in 1..Len(downloads) : DownloadFailed(h)
  \/ \E h \in 1..Len(downloads) : DownloadErased(h)

SpecSave == InitSave /\ [][NextSave]_vars

(***************************************************************************)
(* The packager with a download subsystem that may deliver a state change  *)
(* before the callback of chrome.downloads.download, and that answers      *)
(* every download request and every erase request                          *)
(***************************************************************************)
NextDownloads ==
  \/ NextSave
  \/ \E h \in 1..Len(downloads), reported \in {"complete", "error"} :
       DownloadChangedUnregistered(h, reported)

FairDownloads ==
  /\ WF_vars(\E h \in 1..Len(downloads) : DownloadStarted(h, TRUE))
  /\ WF_vars(\E h \in 1..Len(downloads) : DownloadErased(h))

SpecDownloads == InitSave /\ [][NextDownloads]_vars /\ FairDownloads

(***************************************************************************)
(* A capture under the inline strategy: the fetches, downloadBlob and      *)
(* saveDocument calls of one session with capture.saveAs = "singleHtml"    *)
(***************************************************************************)
InitInline ==
  /\ captureInfo = <<>>
  /\ returned = <<>>
  /\ options \in [saveAs : {"singleHtml"}, saveDataUriAsFile : BOOLEAN,
                  saveInScrapbook : BOOLEAN]
  /\ accessMaps = <<>>
  /\ req = [r \in Reqs |-> NoReq]
  /\ promise = [r \in Reqs |-> NoPromise]
  /\ downloads = <<>>
  /\ downloadInfo = EmptyMap
  /\ docs = <<>>
  /\ tab = NoTab

\* the calls of the in-page agent in such a capture
InlineRequests == {p \in Requests : p[1] \in {Url_a_x, Url_data}}
InlineDocuments == {p \in Documents : p[2] # <<"p">> /\ p[3] = Mime_html}
InlineBlobs ==
  {p \in Blobs : p[1].type = "image/png"}
    \cup { <<[type |-> "text/css", size |-> 3, bytes |-> <<";","#",",">>], <<"a",",","b",";","c">>>>,
           <<[type |-> "text/css", size |-> 0, bytes |-> <<>>], <<>>>> }

NextInline ==
  \/ \E r \in Reqs, p \in InlineRequests : DownloadFile(r, p[1], p[2])
  \/ \E r \in Reqs, responseUrl \in ResponseUrls, headers \in ResponseHeaders :
       DownloadFileHeaders(r, responseUrl, headers)
  \/ \E r \in Reqs, blob \in ResponseBlobs : DownloadFileLoad(r, blob)
  \/ \E r \in Reqs : XhrError(r)
  \/ \E r \in Reqs, rewritten \in BOOLEAN : RewriteAndSave(r, rewritten)
  \/ \E p \in InlineDocuments : SaveDocumentCall(p[1], p[2], p[3], p[4], Url_b)
  \/ \E p \in InlineBlobs : DownloadBlobCall(p[1], p[2], Url_a_x)
  \/ \E h \in 1..Len(downloads), accepted \in BOOLEAN : DownloadStarted(h, accepted)
  \/ \E h \in 1..Len(downloads) : DownloadComplete(h)
  \/ \E h \in 1..Len(downloads) : DownloadFailed(h)

SpecInline == InitInline /\ [][NextInline]_vars

(***************************************************************************)
(* Fetches of two URLs each of which may be redirected to the other, with  *)
(* a transport that answers every request that is not cancelled            *)
(***************************************************************************)
RedirectRequests == { <<Url_a_x, Method_none>>, <<Url_c, Method_none>> }
RedirectFrames == { <<Url_a_x, Some(<<"f">>)>>, <<Url_c, Some(<<"f">>)>> }

\* the transport's next event for request r: the headers, the body or an error
TransportStep(r) ==
  \/ \E responseUrl \in ResponseUrls, headers \in ResponseHeaders :
       DownloadFileHeaders(r, responseUrl, headers)
  \/ \E responseUrl \in ResponseUrls, headers \in ResponseHeaders :
       CaptureUrlHeaders(r, responseUrl, headers)
  \/ \E blob \in ResponseBlobs : DownloadFileLoad(r, blob)
  \/ \E hasDoc \in BOOLEAN : CaptureUrlLoad(r, hasDoc)
  \/ XhrError(r)

NextRedirect ==
  \/ \E r \in Reqs, p \in RedirectRequests : DownloadFile(r, p[1], p[2])
  \/ \E r \in Reqs, p \in RedirectFrames : CaptureUrl(r, p[1], p[2])
  \/ \E r \in Reqs : TransportStep(r)
  \/ \E r \in Reqs, rewritten \in BOOLEAN : RewriteAndSave(r, rewritten)
  \/ \E r \in Reqs, mime \in FrameMimes : CaptureDocumentSave(r, mime)

\* every event of the transport comes, and every continuation runs
FairTransport ==
  \A r \in Reqs :
    /\ WF_vars(TransportStep(r))
    /\ WF_vars(\E rewritten \in BOOLEAN : RewriteAndSave(r, rewritten))
    /\ WF_vars(\E mime \in FrameMimes : CaptureDocumentSave(r, mime))

\* the inline strategy: no filename is allocated and nothing is downloaded
InitRedirect == Init /\ options.saveAs = "singleHtml"

SpecRedirect == InitRedirect /\ [][NextRedirect]_vars /\ FairTransport

(***************************************************************************)
(* An archive session whose main frame is captured from its URL, with a    *)
(* URL whose filename is index.html among those fetched                    *)
(***************************************************************************)
IndexUrls == {Url_index_html, Url_b}

\* capturer.captureUrl with the settings captureTab makes for the main frame:
\* {timeId, frameIsMain: true, documentName: "index"}
CaptureUrlMain(r, url) ==
  /\ FreeReq(r)
  /\ \A q \in Reqs : ~(req[q].op = "captureUrl" /\ req[q].main)
  /\ LET after == CaptureUrlBody(captureInfo, accessMaps, req, promise, r, url, TRUE,
                                 Some(Str_index))
     IN /\ captureInfo' = after.captureInfo
        /\ accessMaps' = after.accessMaps
        /\ req' = after.req
        /\ promise' = after.promise
  /\ UNCHANGED <<returned, options, downloads, downloadInfo, docs, tab>>

NextIndex ==
  \/ \E r \in Reqs, url \in IndexUrls : DownloadFile(r, url, Method_none)
  \/ \E r \in Reqs, url \in IndexUrls : CaptureUrlMain(r, url)
  \/ \E r \in Reqs, responseUrl \in IndexUrls, headers \in ResponseHeaders :
       DownloadFileHeaders(r, responseUrl, headers)
  \/ \E r \in Reqs, responseUrl \in IndexUrls, headers \in ResponseHeaders :
       CaptureUrlHeaders(r, responseUrl, headers)
  \/ \E r \in Reqs, blob \in ResponseBlobs : DownloadFileLoad(r, blob)
  \/ \E r \in Reqs, hasDoc \in BOOLEAN : CaptureUrlLoad(r, hasDoc)
  \/ \E r \in Reqs : XhrError(r)
  \/ \E r \in Reqs, rewritten \in BOOLEAN : RewriteAndSave(r, rewritten)
  \/ \E r \in Reqs : CaptureFileSave(r)
  \/ \E r \in Reqs, mime \in DocumentMimes : CaptureDocumentSave(r, mime)
  \/ \E d \in 1..Len(docs), ok \in BOOLEAN : ArchiveGenerated(d, ok)
  \/ \E h \in 1..Len(downloads), accepted \in BOOLEAN : DownloadStarted(h, accepted)
  \/ \E h \in 1..Len(downloads) : DownloadComplete(h)
  \/ \E h \in 1..Len(downloads) : DownloadFailed(h)

InitIndex == Init /\ options.saveAs \in {"zip", "maff"}

SpecIndex == InitIndex /\ [][NextIndex]_vars

(***************************************************************************)
(* Every caller of saveBlob: saveDocument, downloadBlob and captureBookmark,*)
(* under every strategy, with and without capture.saveInScrapbook          *)
(***************************************************************************)
PromptDocuments ==
  {p \in Documents : p[2] # <<"p">> /\ (p[1] \/ p[3] = Mime_html)}

PromptBlobs == {p \in Blobs : p[1].type = "image/png"}

NextPrompt ==
  \/ \E p \in PromptDocuments : SaveDocumentCall(p[1], p[2], p[3], p[4], Url_a_x)
  \/ \E p \in PromptBlobs : DownloadBlobCall(p[1], p[2], Url_b)
  \/ CaptureBookmarkCall(Url_b)
  \/ \E d \in 1..Len(docs), title \in {None, Some(<<"T">>)} : BookmarkLoad(d, title)
  \/ \E d \in 1..Len(docs) : BookmarkError(d)
  \/ \E d \in 1..Len(docs), ok \in BOOLEAN : ArchiveGenerated(d, ok)
  \/ \E h \in 1..Len(downloads), accepted \in BOOLEAN : DownloadStarted(h, accepted)
  \/ \E h \in 1..Len(downloads) : DownloadComplete(h)
  \/ \E h \in 1..Len(downloads) : DownloadFailed(h)
  \/ \E h \in 1..Len(downloads) : DownloadErased(h)

SpecPrompt == InitSave /\ [][NextPrompt]_vars

(***************************************************************************)
(* The response headers: Content-Disposition's filename and Content-Type   *)
(***************************************************************************)
\* the headers a response may carry
HeaderValues ==
  { NoHeaders,
    [filename |-> None, contentType |-> Some("text/css")],
    [filename |-> Some(<<"n">>), contentType |-> Some("text/css")],
    [filename |-> Some(<<"n",".","p","n","g">>), contentType |-> Some("text/css")],
    [filename |-> Some(<<"n",".","h","t","m","l">>), contentType |-> Some(Mime_html)] }

HeaderRequests == { <<Url_a_x, Method_none>>, <<Url_b, Method_none>> }

NextHeaders ==
  \/ \E r \in Reqs, p \in HeaderRequests : DownloadFile(r, p[1], p[2])
  \/ \E r \in Reqs, p \in FrameRequests : CaptureUrl(r, p[1], p[2])
  \/ \E r \in Reqs, responseUrl \in ResponseUrls, headers \in HeaderValues :
       DownloadFileHeaders(r, responseUrl, headers)
  \/ \E r \in Reqs, responseUrl \in ResponseUrls, headers \in HeaderValues :
       CaptureUrlHeaders(r, responseUrl, headers)

SpecHeaders == Init /\ [][NextHeaders]_vars

(***************************************************************************)
(* downloadFile on data URLs, under every strategy and either setting of   *)
(* capture.saveDataUriAsFile                                               *)
(***************************************************************************)
InitData ==
  /\ captureInfo = <<>>
  /\ returned = <<>>
  /\ options \in [saveAs : SaveAsValues, saveDataUriAsFile : BOOLEAN,
                  saveInScrapbook : {TRUE}]
  /\ accessMaps = <<>>
  /\ req = [r \in Reqs |-> NoReq]
  /\ promise = [r \in Reqs |-> NoPromise]
  /\ downloads = <<>>
  /\ downloadInfo = EmptyMap
  /\ docs = <<>>
  /\ tab = NoTab

\* the calls of the in-page agent: data URLs (two that differ in the fragment,
\* one without a comma) and a URL that is fetched
DataRequests ==
  { <<Url_data_x, Method_none>>, <<Url_data_y, Method_none>>,
    <<Url_data_malformed, Method_none>>, <<Url_b, Method_none>> }

NextData ==
  \/ \E r \in Reqs, p \in DataRequests : DownloadFile(r, p[1], p[2])
  \/ \E r \in Reqs, responseUrl \in ResponseUrls, headers \in ResponseHeaders :
       DownloadFileHeaders(r, responseUrl, headers)
  \/ \E r \in Reqs, blob \in ResponseBlobs : DownloadFileLoad(r, blob)
  \/ \E r \in Reqs : XhrError(r)
  \/ \E r \in Reqs, rewritten \in BOOLEAN : RewriteAndSave(r, rewritten)
  \/ \E h \in 1..Len(downloads), accepted \in BOOLEAN : DownloadStarted(h, accepted)
  \/ \E h \in 1..Len(downloads) : DownloadComplete(h)
  \/ \E h \in 1..Len(downloads) : DownloadFailed(h)
  \/ \E h \in 1..Len(downloads) : DownloadErased(h)

SpecData == InitData /\ [][NextData]_vars

(***************************************************************************)
(* The capture of one tab                                                  *)
(***************************************************************************)
TabModes == {"document", "source", "bookmark"}

\* the calls of the in-page agent while it captures the tab's document
TabRequests == { <<Url_a_x, Method_none>> }
TabDocuments == { <<TRUE, Str_index, Mime_html, None>> }

InitTab ==
  /\ captureInfo = <<>>
  /\ returned = <<>>
  /\ options \in [saveAs : SaveAsValues, saveDataUriAsFile : {FALSE},
                  saveInScrapbook : {TRUE}]
  /\ accessMaps = <<>>
  /\ req = [r \in Reqs |-> NoReq]
  /\ promise = [r \in Reqs |-> NoPromise]
  /\ downloads = <<>>
  /\ downloadInfo = EmptyMap
  /\ docs = <<>>
  /\ tab = NoTab

\* the in-page agent works on the tab's document
AgentAtWork == tab.mode = "document" /\ tab.st = "running" /\ tab.agent.st = "pending"

NextTab ==
  \/ \E mode \in TabModes : CaptureTab(mode)
  \/ \E kind \in {"undefined", "rejected", "result"} : AgentAnswers(kind)
  \/ CaptureTabResponse
  \/ \E r \in Reqs, p \in TabRequests : AgentAtWork /\ DownloadFile(r, p[1], p[2])
  \/ \E p \in TabDocuments :
       AgentAtWork /\ SaveDocumentCall(p[1], p[2], p[3], p[4], TabUrl)
  \/ \E r \in Reqs, responseUrl \in ResponseUrls, headers \in ResponseHeaders :
       DownloadFileHeaders(r, responseUrl, headers)
  \/ \E r \in Reqs, responseUrl \in ResponseUrls, headers \in ResponseHeaders :
       CaptureUrlHeaders(r, responseUrl, headers)
  \/ \E r \in Reqs, blob \in ResponseBlobs : DownloadFileLoad(r, blob)
  \/ \E r \in Reqs, hasDoc \in BOOLEAN : CaptureUrlLoad(r, hasDoc)
  \/ \E r \in Reqs : XhrError(r)
  \/ \E r \in Reqs, rewritten \in BOOLEAN : RewriteAndSave(r, rewritten)
  \/ \E r \in Reqs : CaptureFileSave(r)
  \/ \E r \in Reqs, mime \in DocumentMimes : CaptureDocumentSave(r, mime)
  \/ \E d \in 1..Len(docs), title \in {None, Some(<<"T">>)} : BookmarkLoad(d, title)
  \/ \E d \in 1..Len(docs) : BookmarkError(d)
  \/ \E d \in 1..Len(docs), ok \in BOOLEAN : ArchiveGenerated(d, ok)
  \/ \E h \in 1..Len(downloads), accepted \in BOOLEAN : DownloadStarted(h, accepted)
  \/ \E h \in 1..Len(downloads) : DownloadComplete(h)
  \/ \E h \in 1..Len(downloads) : DownloadFailed(h)
  \/ \E h \in 1..Len(downloads) : DownloadErased(h)

SpecTab == InitTab /\ [][NextTab]_vars

(***************************************************************************)
(* The allocator on its own: any sequence of calls in one session          *)
(***************************************************************************)
MaxCalls == 3

LongBase == [i \in 1..130 |-> "a"]

\* a base within the character bound that exceeds the byte bound
LongBytes == [i \in 1..125 |-> "é"]

\* the filenames the callers ask for
DesiredFilenames ==
  { <<>>, <<"a">>, <<"A">>, <<"a","-","1">>,
    Str_index_rdf, <<"I","N","D","E","X",".","D","A","T">>,
    <<"a",".","x","h","t","m","l">>, <<"a","_","1",".","h","t","m","l">>,
    LongBase \o <<".","b">> }

\* the document names the callers ask for
DesiredDocumentNames == { Str_index, <<"a">>, <<"A">>, <<"a","_","1">> }

\* capturer.getUniqueFilename(timeId, filename)
GetUniqueFilename(timeId, filename) ==
  LET files == FilesOf(captureInfo, timeId)
  IN /\ Len(returned) < MaxCalls
     /\ captureInfo' = SetFiles(captureInfo, timeId, FilesAfterUnique(files, filename))
     /\ returned' = Append(returned,
                      [op |-> "getUniqueFilename", arg |-> filename, before |-> files,
                       after |-> FilesAfterUnique(files, filename),
                       name |-> UniqueFilename(files, filename)])
     /\ UNCHANGED <<options, accessMaps, req, promise, downloads, downloadInfo, docs, tab>>

\* capturer.registerDocument({settings: {timeId, documentName}})
RegisterDocument(timeId, documentName) ==
  LET files == FilesOf(captureInfo, timeId)
  IN /\ Len(returned) < MaxCalls
     /\ captureInfo' = SetFiles(captureInfo, timeId, FilesAfterDocument(files, documentName))
     /\ returned' = Append(returned,
                      [op |-> "registerDocument", arg |-> documentName, before |-> files,
                       after |-> FilesAfterDocument(files, documentName),
                       name |-> DocumentName(files, documentName)])
     /\ UNCHANGED <<options, accessMaps, req, promise, downloads, downloadInfo, docs, tab>>

InitNames ==
  /\ captureInfo = <<>>
  /\ returned = <<>>
  /\ options = [saveAs |-> "folder", saveDataUriAsFile |-> FALSE, saveInScrapbook |-> TRUE]
  /\ accessMaps = <<>>
  /\ req = [r \in Reqs |-> NoReq]
  /\ promise = [r \in Reqs |-> NoPromise]
  /\ downloads = <<>>
  /\ downloadInfo = EmptyMap
  /\ docs = <<>>
  /\ tab = NoTab

NextNames ==
  \/ \E f \in DesiredFilenames : GetUniqueFilename(TimeId, f)
  \/ \E d \in DesiredDocumentNames : RegisterDocument(TimeId, d)

SpecNames == InitNames /\ [][NextNames]_vars

\* the allocator in two sessions: the names asked for include the empty name
\* and the names over the character and the byte bound
TimeId2 == <<"t","2">>

BoundaryFilenames ==
  { <<>>, <<"a">>, <<"A">>, LongBase \o <<".","b">>, LongBytes \o <<".","b">> }

NextNames2 == \E t \in {TimeId, TimeId2}, f \in BoundaryFilenames : GetUniqueFilename(t, f)

SpecNames2 == InitNames /\ [][NextNames2]_vars

(***************************************************************************)
(* Claims about the access deduplicator (checked under Spec)               *)
(***************************************************************************)
\* the part of a URL before its first "#"
BeforeHash(url) ==
  LET hashes == {i \in 1..Len(url) : url[i] = "#"}
  IN IF hashes = {} THEN url
     ELSE SubSeq(url, 1, (CHOOSE i \in hashes : \A j \in hashes : i <= j) - 1)

\* the text a token is the digest of
TokenText(url, method) == BeforeHash(url) \o <<"\t">> \o method

\* the calls made, and those that issued a transport fetch
Callers == {r \in Reqs : req[r].op # "none"}
Fetches == {r \in Reqs : req[r].xhr # "none"}

\* the resolved URL of a call, once known: what its response headers
\* reported, or that of the earlier call whose promise it was handed
RECURSIVE ResolvedOf(_)
ResolvedOf(r) ==
  IF req[r].responseUrl # None THEN Some(BeforeHash(req[r].responseUrl[1]))
  ELSE IF req[r].pc = "previous" /\ promise[r].to[1] = "req" /\ promise[r].to[2] < r
       THEN ResolvedOf(promise[r].to[2])
       ELSE None

SameResolved(r, q) ==
  /\ req[r].method = req[q].method
  /\ ResolvedOf(r) # None
  /\ ResolvedOf(r) = ResolvedOf(q)

Variants(r) ==
  {p \in Callers : /\ req[p].op = "downloadFile"
                   /\ req[p].method = req[r].method
                   /\ BeforeHash(req[p].url) = BeforeHash(req[r].url)}

\* the first of the variants of call r
FirstVariant(r) == CHOOSE p \in Variants(r) : \A q \in Variants(r) : p <= q

RedirectToKnown(r) ==
  /\ req[r].xhr = "sent"
  /\ req'[r].responseUrl # None
  /\ BeforeHash(req'[r].responseUrl[1]) # BeforeHash(req[r].url)
  /\ TokenText(req'[r].responseUrl[1], req[r].method) \in DOMAIN accessMaps[req[r].map]

\* C3: when the headers of a fetch for A show a redirect to B and B's token is
\* in the access map, the fetch is cancelled and no token is bound in that
\* step; afterwards A's token is still bound to A's call, B's token to the
\* earlier one, and A's result is the result memoized for B.
C3_RedirectToKnown ==
  /\ [][\A r \in Reqs :
          RedirectToKnown(r) =>
            /\ req'[r].xhr = "aborted"
            /\ accessMaps' = accessMaps
            /\ promise'[r] =
                 ResolvedTo(accessMaps[req[r].map]
                              [TokenText(req'[r].responseUrl[1], req[r].method)])]_vars
  /\ [](\A r \in Reqs :
          req[r].xhr = "aborted" =>
            LET map == accessMaps[req[r].map]
                known == map[TokenText(req[r].responseUrl[1], req[r].method)]
            IN /\ map[TokenText(req[r].url, req[r].method)] = <<"req", r>>
               /\ known # <<"req", r>>
               /\ Observed(<<"req", r>>) = Observed(known))

\* C3 witness: B was asked for and settled, then a fetch for A was redirected
\* to B and cancelled, and A's caller has B's result.
C3_Witness ==
  \E r, q \in Fetches :
    /\ q < r
    /\ req[r].xhr = "aborted"
    /\ BeforeHash(req[r].responseUrl[1]) = BeforeHash(req[q].url)
    /\ promise[r] = ResolvedTo(<<"req", q>>)
    /\ promise[q].st = "fulfilled"
    /\ Observed(<<"req", r>>) = promise[q]

\* the calls whose fetch failed: a transport error, or a malformed data URL
FetchFailed(r) ==
  \/ req[r].xhr = "error"
  \/ req[r].xhr = "none" /\ req[r].failed

\* C4: no promise of a downloadFile or captureUrl call is rejected; a failed
\* fetch settles its promise with {url: placeholder, error}; the record stays
\* under the call's token, and every other call with that token issues no
\* fetch and observes the same record.
C4_FailureMemoized ==
  /\ \A r \in Reqs : promise[r].st # "rejected"
  /\ \A r \in Callers :
       FetchFailed(r) =>
         /\ promise[r].st = "fulfilled"
         /\ promise[r].val.error # None
         /\ promise[r].val.url = <<"urn:scrapbook:download:error:">> \o req[r].url
         /\ accessMaps[req[r].map][TokenText(req[r].url, req[r].method)] = <<"req", r>>
         /\ \A q \in Callers :
              (q # r /\ TokenText(req[q].url, req[q].method)
                          = TokenText(req[r].url, req[r].method))
                => /\ q \notin Fetches
                   /\ Observed(<<"req", q>>) = promise[r]

\* C4 witness: a fetch failed with a transport error, and a later call with
\* the token of the failed fetch issued no fetch and has the error record.
C4_Witness ==
  /\ \E r, q \in Callers :
       /\ req[r].xhr = "error"
       /\ q > r
       /\ TokenText(req[q].url, req[q].method) = TokenText(req[r].url, req[r].method)
       /\ q \notin Fetches
       /\ Observed(<<"req", q>>).val.error # None

\* the tokens of a fetch: that of its request URL and, once the headers have
\* come, that of its response URL
TokensOf(r) ==
  {getAccessToken(req[r].url, req[r].method)}
    \cup (IF req[r].responseUrl = None THEN {}
          ELSE {getAccessToken(req[r].responseUrl[1], req[r].method)})

\* the fetches that were not cancelled
FetchesKept == {r \in Fetches : req[r].xhr # "aborted"}

\* C19: while the session lasts its access map is the same map, every token
\* bound in it stays bound to the same promise, and no two fetches that were
\* not cancelled have a token in common.
C19_WriteOnce ==
  /\ [][ /\ \A m \in 1..Len(accessMaps) :
              /\ m <= Len(accessMaps')
              /\ \A t \in DOMAIN accessMaps[m] :
                   t \in DOMAIN accessMaps'[m] /\ accessMaps'[m][t] = accessMaps[m][t]
         /\ \A s \in DOMAIN captureInfo :
              captureInfo[s].accessMap # None =>
                s \in DOMAIN captureInfo' /\ captureInfo'[s].accessMap = captureInfo[s].accessMap
       ]_vars
  /\ [](\A r, q \in FetchesKept : r # q => TokensOf(r) \cap TokensOf(q) = {})

\* C19 witness: a fetch was cancelled on a redirect to a URL whose token was
\* bound, another fetch has bound the token of its response URL besides its
\* own, and a later call was handed a promise of the map.
C19_Witness ==
  /\ \E r \in Fetches : req[r].xhr = "aborted"
  /\ \E r \in FetchesKept : Cardinality(TokensOf(r)) = 2
  /\ \E m \in 1..Len(accessMaps) : Cardinality(DOMAIN accessMaps[m]) >= 2

\* the requests merged on redirect: cancelled when their headers came
Merged == {r \in Reqs : req[r].xhr = "aborted"}

\* C27: the step in which a request is merged on redirect changes neither the
\* session (its files, its zip), nor the access map, nor the downloads; the
\* merged request has allocated no filename and holds none, its own token
\* stays bound to it, and it follows the promise bound to the token of the
\* redirect target, which stays bound as it was.
C27_MergeLeavesSession ==
  /\ [][\A r \in Reqs :
          (req[r].xhr = "sent" /\ req'[r].xhr = "aborted") =>
            /\ captureInfo' = captureInfo
            /\ accessMaps' = accessMaps
            /\ downloads' = downloads /\ downloadInfo' = downloadInfo /\ docs' = docs
            /\ \A q \in Reqs \ {r} : req'[q] = req[q] /\ promise'[q] = promise[q]
       ]_vars
  /\ [](\A r \in Merged :
          LET own == getAccessToken(req[r].url, req[r].method)
              target == getAccessToken(req[r].responseUrl[1], req[r].method)
              map == accessMaps[req[r].map]
          IN /\ req[r].allocs = 0 /\ req[r].filename = None /\ req[r].blob = None
             /\ req[r].pc = "done"
             /\ own \in DOMAIN map /\ map[own] = <<"req", r>>
             /\ target \in DOMAIN map /\ map[target] # <<"req", r>>
             /\ promise[r] = ResolvedTo(map[target]))

\* C27 witness: a downloadFile request was merged on redirect in a session in
\* which another request has got its filename.
C27_Witness ==
  \E r \in Merged :
    /\ req[r].op = "downloadFile"
    /\ \E q \in Reqs : req[q].op = "downloadFile" /\ req[q].allocs = 1
    /\ FilesOf(captureInfo, TimeId) # defaultFilesSet

\* the promise of call r is settled, as its caller sees it
Settled(r) == Observed(<<"req", r>>).st \in {"fulfilled", "rejected"}

\* the promise of call r waits on promises that come back to one of themselves
RECURSIVE EndsInCycle(_, _)
EndsInCycle(ref, seen) ==
  IF ref[1] # "req" THEN FALSE
  ELSE IF ref \in seen THEN TRUE
  ELSE /\ promise[ref[2]].st \in {"follows", "captureFile"}
       /\ EndsInCycle(promise[ref[2]].to, seen \cup {ref})

\* C28 (checked under SpecRedirect): with a transport that delivers the
\* headers and then the body or an error for every request that is not
\* cancelled, the promise of every downloadFile and captureUrl call settles;
\* no two requests merged on redirect wait for each other.
C28_EverySettles ==
  /\ \A r \in Reqs : (req[r].op # "none") ~> Settled(r)
  /\ [](\A r \in Reqs : ~EndsInCycle(<<"req", r>>, {}))

\* C28, the part the code keeps: every call settles unless it waits on
\* requests that were merged into each other
C28_SettlesUnlessCycle ==
  \A r \in Reqs : (req[r].op # "none") ~> (Settled(r) \/ EndsInCycle(<<"req", r>>, {}))

(***************************************************************************)
(* Claims about the packager (checked under SpecSave)                      *)
(***************************************************************************)
ArchiveMode == options.saveAs \in {"zip", "maff"}

\* the calls that called zip.generateAsync, and the downloads of an archive
Finalizations == {d \in 1..Len(docs) : docs[d].archive # None}
ArchiveDownloads == {h \in 1..Len(downloads) : downloads[h].kind = "archive"}

\* the path of the entry that saveDocument call d writes for its document
DocumentPath(d) ==
  (IF options.saveAs = "maff" THEN TimeId \o <<"/">> ELSE <<>>)
    \o docs[d].documentName \o (IF docs[d].mime = Mime_xhtml THEN Str_xhtml ELSE Str_html)

HasPrefix(s, prefix) == Len(s) >= Len(prefix) /\ SubSeq(s, 1, Len(prefix)) = prefix

\* the entries of the session's zip and of every archive generated from it
AllEntries ==
  ZipOf(captureInfo, TimeId)
    \cup UNION {docs[d].archive[1] : d \in Finalizations}

\* C10: in mode maff every entry path of the session's archive starts with
\* the session id and "/"; in mode zip no entry path does.
C10_EntryPaths ==
  /\ options.saveAs = "maff" => \A e \in AllEntries : HasPrefix(e.path, TimeId \o <<"/">>)
  /\ options.saveAs = "zip" => \A e \in AllEntries : ~HasPrefix(e.path, TimeId \o <<"/">>)

\* C10 witness: a maff archive holds a sub-resource, the main document
\* index.xhtml, the stub index.html and the manifest index.rdf.
C10_Witness ==
  /\ options.saveAs = "maff"
  /\ \E d \in Finalizations :
       {TimeId \o <<"/">> \o Str_index_xhtml, TimeId \o <<"/">> \o Str_index_html,
        TimeId \o <<"/">> \o Str_index_rdf, TimeId \o <<"/","a",".","c","s","s">>}
         \subseteq {e.path : e \in docs[d].archive[1]}

\* the name a character reference of the manifest stands for
RefChar(name) ==
  CASE name = <<"a","m","p">> -> "&"
    [] name = <<"l","t">> -> "<"
    [] name = <<"g","t">> -> ">"
    [] name = <<"q","u","o","t">> -> "\""
    [] OTHER -> "?"

\* the text an attribute value of the manifest stands for when it is read
RECURSIVE unescapeHtml(_)
unescapeHtml(str) ==
  IF str = <<>> THEN <<>>
  ELSE IF Head(str) = "&" /\ IndexOf(str, ";") > 0
       THEN <<RefChar(SubSeq(str, 2, IndexOf(str, ";") - 1))>>
              \o unescapeHtml(SubSeq(str, IndexOf(str, ";") + 1, Len(str)))
       ELSE <<Head(str)>> \o unescapeHtml(Tail(str))

\* the saveDocument calls made for the main frame, and the calls before call d
\* that wrote an entry for a sub-resource or a frame
MainSaves == {d \in 1..Len(docs) : docs[d].op = "saveDocument" /\ docs[d].main}
DocumentFile(d) == docs[d].documentName \o DocumentExt(docs[d].mime)
EntryName(e) ==
  IF docs[e].op = "downloadBlob" THEN docs[e].documentName ELSE DocumentFile(e)
EarlierEntries(d) ==
  {e \in 1..(d - 1) : docs[e].op \in {"downloadBlob", "saveDocument"}}
ManifestsOf(zip) == {e \in zip : e.path = TimeId \o <<"/">> \o Str_index_rdf}

MainXhtmlDownloads ==
  {h \in 1..Len(downloads) :
     /\ options.saveAs = "folder"
     /\ downloads[h].cont[1] = "doc"
     /\ docs[downloads[h].cont[2]].op = "saveDocument"
     /\ docs[downloads[h].cont[2]].main
     /\ docs[downloads[h].cont[2]].documentName = Str_index
     /\ docs[downloads[h].cont[2]].mime = Mime_xhtml}

\* C12: in mode folder, of the downloads of a main frame of type
\* application/xhtml+xml the first is index.xhtml with autoErase false and the
\* one started after it is the stub index.html with autoErase true.
C12_XhtmlFlags ==
  \A h \in MainXhtmlDownloads :
    /\ downloads[h].kind = "document" =>
         /\ FinalFilename(downloads[h].path) = Str_index_xhtml
         /\ downloads[h].autoErase = FALSE
    /\ downloads[h].kind = "stub" =>
         /\ FinalFilename(downloads[h].path) = Str_index_html
         /\ downloads[h].autoErase = TRUE
         /\ \E g \in MainXhtmlDownloads : g < h /\ downloads[g].kind = "document"

\* the downloads that persist a sub-resource or the document of a frame, and
\* those that persist the main document or the archive
SecondaryDownloads ==
  {h \in 1..Len(downloads) :
     \/ downloads[h].kind = "resource"
     \/ /\ downloads[h].kind = "document" /\ downloads[h].cont[1] = "doc"
        /\ ~docs[downloads[h].cont[2]].main}
PrimaryDownloads ==
  {h \in 1..Len(downloads) :
     \/ downloads[h].kind = "archive"
     \/ /\ downloads[h].kind = "document" /\ downloads[h].cont[1] = "doc"
        /\ docs[downloads[h].cont[2]].main}

\* C13: every download of a secondary resource has autoErase true and every
\* download of the primary document or of the archive has autoErase false.
C13_AutoErase ==
  /\ \A h \in SecondaryDownloads : downloads[h].autoErase = TRUE
  /\ \A h \in PrimaryDownloads : downloads[h].autoErase = FALSE

\* the saveDocument calls for a main frame of type application/xhtml+xml
\* whose document has been written: to the zip, or by a completed download
MainXhtmlSaved ==
  {d \in MainSaves :
     /\ docs[d].mime = Mime_xhtml
     /\ options.saveAs \in {"zip", "maff", "folder"}
     /\ options.saveAs = "folder" => docs[d].st \in {"saving_stub", "done"}
     /\ options.saveAs = "folder" => \E h \in 1..Len(downloads) :
          /\ downloads[h].cont = <<"doc", d>> /\ downloads[h].kind = "document"
          /\ downloads[h].st \in {"erasing", "gone"}
          /\ docs[d].result.st # "fulfilled" \/ docs[d].result.val.error = None}

\* the redirect targets of the stubs index.html emitted for saveDocument call d
StubTargets(d) ==
  IF options.saveAs = "folder"
  THEN {StubTarget : h \in {g \in 1..Len(downloads) :
                              /\ downloads[g].cont = <<"doc", d>>
                              /\ downloads[g].kind = "stub"
                              /\ FinalFilename(downloads[g].path) = Str_index_html}}
  ELSE {e.meta[1].target :
          e \in {x \in ZipOf(captureInfo, TimeId) :
                   /\ x.path = ZipPath(options.saveAs, TimeId, Str_index_html)
                   /\ x.meta # None}}

\* C14: whenever saveDocument has written a main frame's document with the
\* extension .xhtml, a stub index.html is in the same output and the file its
\* redirect names is the document just written, whatever its document name.
C14_StubTarget ==
  \A d \in MainXhtmlSaved : StubTargets(d) = {DocumentFile(d)}

\* C14 as far as the code goes: the stub index.html is in the same output and
\* names index.xhtml.
C14_StubEmitted ==
  \A d \in MainXhtmlSaved : StubTargets(d) = {Str_index_xhtml}

\* the filename of a path relative to its directory
RelativeName(path) ==
  LET cuts == {i \in 0..Len(path) :
                 /\ i = 0 \/ path[i] = "/"
                 /\ \A j \in (i + 1)..Len(path) : path[j] # "/"}
  IN SubSeq(path, (CHOOSE i \in cuts : TRUE) + 1, Len(path))

\* what the caller of saveBlob that awaits download h has got after the step
CalledBackWith(h, result) ==
  LET c == downloads[h].cont
  IN IF c[1] = "req" THEN promise'[c[2]] = result
     ELSE docs'[c[2]].st = "saving_stub" \/ docs'[c[2]].result = result
CalledBackWithError(h, code) ==
  LET c == downloads[h].cont
      got == IF c[1] = "req" THEN promise'[c[2]] ELSE docs'[c[2]].result
  IN got.st \in {"fulfilled", "rejected"} /\ got.val.error = Some(code)

\* C16: in the step in which a registered download is reported complete its
\* onComplete is called with the filename of the final path, and in the step
\* in which it is reported failed its onError is called with the code; the
\* erase of the history entry is requested only for a download flagged
\* autoErase and not before the callback; and the entry of downloadInfo is
\* deleted only after the callback and, when flagged, after the erase has
\* answered.
C16_Callbacks ==
  [][\A h \in 1..Len(downloads) :
       /\ ( /\ downloads[h].reported = "none" /\ downloads'[h].reported = "complete"
            /\ h \in DOMAIN downloadInfo ) =>
            /\ downloads'[h].st \in {"erasing", "gone"}
            /\ CalledBackWith(h, Fulfilled(FileResult(RelativeName(downloads[h].path),
                                                      downloads[h].src)))
       /\ ( /\ downloads[h].reported = "none" /\ downloads'[h].reported = "error"
            /\ h \in DOMAIN downloadInfo ) =>
            /\ downloads'[h].st \in {"erasing", "gone"}
            /\ CalledBackWithError(h, "download error")
       /\ (downloads[h].st # "erasing" /\ downloads'[h].st = "erasing") =>
            /\ downloadInfo[h].autoErase
            /\ downloads'[h].reported # "none"
       /\ (h \in DOMAIN downloadInfo /\ h \notin DOMAIN downloadInfo') =>
            /\ downloads'[h].reported # "none"
            /\ downloads[h].st = "erasing" \/ downloads[h].reported = "none"
            /\ downloadInfo[h].autoErase = (downloads[h].st = "erasing")
            /\ downloads'[h].st = "gone"
    ]_vars

\* C16 witness: a download flagged autoErase was reported complete, its
\* caller has the filename, the history entry was erased and the entry of
\* downloadInfo is deleted; another one was reported failed.
C16_Witness ==
  /\ \E h \in 1..Len(downloads) :
       /\ downloads[h].autoErase /\ downloads[h].reported = "complete"
       /\ downloads[h].st = "gone" /\ h \notin DOMAIN downloadInfo
       /\ docs[downloads[h].cont[2]].result.st = "fulfilled"
       /\ docs[downloads[h].cont[2]].result.val.filename # None
  /\ \E h \in 1..Len(downloads) : downloads[h].reported = "error"

\* the ids the downloads of a run can have
DownloadIds == 1..(MaxDocs + MaxReq + 1)

\* download h has been reported complete or failed by chrome.downloads
Reported(h) == h \in 1..Len(downloads) /\ downloads[h].reported # "none"

\* C17: every entry of downloadInfo whose download has been reported
\* complete or failed is removed in the end, so that downloadInfo is empty
\* once every download started has been reported, whatever the order of the
\* notifications.
C17_RegistryDrains ==
  /\ \A h \in DownloadIds :
       (Reported(h) /\ h \in DOMAIN downloadInfo) ~> (h \notin DOMAIN downloadInfo)
  /\ (\A h \in 1..Len(downloads) : Reported(h)) ~> (downloadInfo = EmptyMap)

\* C17 for the notifications that come after the callback of
\* chrome.downloads.download has stored the id: the entry of a download that
\* was reported while it was in downloadInfo is removed in the end.
C17_DrainsWhenRegisteredFirst ==
  \A h \in DownloadIds :
    (Reported(h) /\ h \in DOMAIN downloadInfo /\ downloads[h].st # "in_progress")
      ~> (h \notin DOMAIN downloadInfo)

\* the promise saveUrl returned for download h has been settled by
\* onComplete or onError
PersistSettled(h) == h \in 1..Len(downloads) /\ downloads[h].st \in {"erasing", "gone"}

\* C29 (checked under SpecDownloads): the promise saveUrl returned for a
\* download that chrome.downloads accepted settles once the download has been
\* reported complete or failed, also when the notification comes before the
\* callback of chrome.downloads.download has stored the id.
C29_PersistSettles ==
  \A h \in DownloadIds : Reported(h) ~> PersistSettled(h)

\* C29 for a notification that comes while the id is in downloadInfo: the
\* listener settles the promise in the same turn.
C29_SettlesWhenRegistered ==
  [][\A h \in 1..Len(downloads) :
       (h \in DOMAIN downloadInfo /\ ~Reported(h) /\ downloads'[h].reported # "none")
         => /\ downloads'[h].st \in {"erasing", "gone"}
            /\ IF downloads[h].cont[1] = "req"
               THEN promise'[downloads[h].cont[2]].st = "fulfilled"
               ELSE docs'[downloads[h].cont[2]].st = "done" \/ NeedsStub(downloads[h].cont)
    ]_vars

\* C30 (checked under SpecIndex): in the modes zip and maff no entry of the
\* session's archive is written a second time, so that every entry stays as
\* it was written: the paths of the documents, of the index.html stub and of
\* index.rdf are not those getUniqueFilename gave to a sub-resource.
C30_NoEntryOverwritten ==
  [][\A e \in ZipOf(captureInfo, TimeId) : e \in ZipOf(captureInfo', TimeId)]_vars

\* the compression the rule of the sub-resources gives an entry
RuleCompression(e) ==
  IF CompressibleType(e.type) /\ e.size >= MinCompressSize THEN "DEFLATE" ELSE "STORE"

\* the entries written by downloadBlob: those of no document, stub or manifest
DocumentPaths ==
  {DocumentPath(d) : d \in {d \in 1..Len(docs) : docs[d].op = "saveDocument"}}
    \cup {ZipPath(options.saveAs, TimeId, Str_index_html),
          ZipPath(options.saveAs, TimeId, Str_index_rdf)}
ResourceEntries == {e \in AllEntries : e.path \notin DocumentPaths}

\* C30 among the sub-resources: an entry whose path is that of no document,
\* stub or manifest is replaced by no later entry.
C30_ResourcesKept ==
  [][\A e \in ZipOf(captureInfo, TimeId) :
       (e.path \notin DocumentPaths /\ e.path \notin DocumentPaths')
         => e \in ZipOf(captureInfo', TimeId)]_vars

\* C22: every entry of a zip or maff archive - sub-resource, document, stub
\* or manifest - is compressed (DEFLATE) exactly when its type is of a
\* compressible family and its size is at least 128 bytes, and stored
\* otherwise.
C22_Compression ==
  ArchiveMode => \A e \in AllEntries : e.compression = RuleCompression(e)

\* C22, the part the code keeps: the entries written by downloadBlob follow
\* the rule, the stub and the manifest are compressed whatever their size
C22_ResourceCompression ==
  ArchiveMode =>
    /\ \A e \in ResourceEntries : e.compression = RuleCompression(e)
    /\ \A e \in AllEntries \ ResourceEntries : e.compression = "DEFLATE"

(***************************************************************************)
(* Claims about data URLs (checked under SpecData)                         *)
(***************************************************************************)
\* the downloadFile calls for a data URL
DataCalls == {r \in Reqs : req[r].op = "downloadFile" /\ StartsWithData(req[r].url)}

\* capture.saveDataUriAsFile is set and the strategy is not singleHtml
Materialized == options.saveDataUriAsFile /\ options.saveAs # "singleHtml"

\* call r persisted nothing: it wrote no entry and started no download
PersistedNothing(r) ==
  /\ req[r].allocs = 0
  /\ req[r].filename = None
  /\ \A h \in 1..Len(downloads) : downloads[h].cont # <<"req", r>>

\* the payload of call r is where a fetched payload would be: an entry of the
\* archive, or a download under the session's folder
PersistedAsFile(r) ==
  /\ req[r].filename # None
  /\ options.saveAs \in {"zip", "maff"} =>
       (req[r].pc = "done" =>
          \E e \in ZipOf(captureInfo, TimeId) :
            e.path = ZipPath(options.saveAs, TimeId, req[r].filename[1]))
  /\ options.saveAs = "folder" =>
       (req[r].pc \in {"saving", "done"} =>
          \E h \in 1..Len(downloads) :
            /\ downloads[h].cont = <<"req", r>>
            /\ downloads[h].path = FolderDir(TimeId) \o <<"/">> \o req[r].filename[1])

\* the data-URL calls that got their own filename
DataFiles == {r \in DataCalls : req[r].allocs = 1}

\* what the calls for a data URL do, where Passed(r) is the URL a call that is
\* passed through answers with
DataUriHandled(Passed(_)) ==
  /\ \A r \in DataCalls : req[r].xhr = "none"
  /\ ~Materialized =>
       \A r \in DataCalls :
         /\ Observed(<<"req", r>>) = Fulfilled(PassResult(Passed(r)))
         /\ PersistedNothing(r)
  /\ Materialized =>
       /\ \A r \in DataCalls :
            (req[r].pc # "previous" /\ dataUriToFile(UrlMain(req[r].url)) # None)
              => req[r].allocs = 1 /\ PersistedAsFile(r)
       /\ \A r, q \in Reqs :
            (r \in DataFiles /\ q # r /\ req[q].filename # None)
              => toLowerCase(req[q].filename[1]) # toLowerCase(req[r].filename[1])

\* the URL of the call itself
OwnUrl(r) == req[r].url

\* the URL of the first call for the same data (the call whose promise the
\* later ones are handed)
FirstUrl(r) ==
  req[CHOOSE q \in DataCalls :
        /\ UrlMain(req[q].url) = UrlMain(req[r].url)
        /\ \A p \in DataCalls : UrlMain(req[p].url) = UrlMain(req[r].url) => q <= p].url

\* C23: downloadFile starts no fetch for a data URL; unless data URLs are
\* saved as files under a strategy other than singleHtml, each such call
\* answers with its own source URL unchanged, allocates no filename and
\* persists nothing; otherwise the decoded payload gets a filename unique in
\* the session and is persisted as a fetched payload is.
C23_DataUri == DataUriHandled(OwnUrl)

\* C23, as the code has it: a later call for the same data with another
\* fragment answers with the source URL of the first call
C23_DataUriOfFirst == DataUriHandled(FirstUrl)

(***************************************************************************)
(* Claims about a persistence failure (checked under SpecSave)             *)
(***************************************************************************)
\* the downloads that failed: chrome.downloads.download gave no id, or the
\* listener was told of an error for a registered id
RefusedDownloads == {h \in 1..Len(downloads) : downloads[h].st = "refused"}
ErrorDownloads ==
  {h \in 1..Len(downloads) :
     downloads[h].reported = "error" /\ downloads[h].st \in {"erasing", "gone"}}

\* the call that awaits download h has settled with an error record: an error
\* and the placeholder URL of its source
SettledWithError(h) ==
  LET o == Observed(downloads[h].cont)
  IN /\ o.st = "fulfilled"
     /\ o.val.error # None
     /\ o.val.url = getErrorUrl(downloads[h].src)

\* the calls whose download failed, by operation
FailedOf(op) ==
  {h \in RefusedDownloads \cup ErrorDownloads :
     /\ downloads[h].cont[1] = "doc"
     /\ docs[downloads[h].cont[2]].op = op}

\* C26: when chrome.downloads.download gives no id or an error is reported
\* for the id, the promise of the operation that asked for the download -
\* saveDocument, downloadFile, downloadBlob - is not rejected: it is fulfilled
\* with a record that has an error and the placeholder URL; and a download
\* that got no id has no entry in downloadInfo.
C26_FailureSettles ==
  /\ \A h \in RefusedDownloads \cup ErrorDownloads : SettledWithError(h)
  /\ \A h \in RefusedDownloads : h \notin DOMAIN downloadInfo

\* C26, the part the code keeps: saveDocument settles with an error record,
\* no refused download is registered; downloadBlob called with a message is
\* rejected
C26_SaveDocumentSettles ==
  /\ \A h \in FailedOf("saveDocument") : SettledWithError(h)
  /\ \A h \in FailedOf("downloadBlob") : Observed(downloads[h].cont).st = "rejected"
  /\ \A h \in RefusedDownloads : h \notin DOMAIN downloadInfo

\* C26, downloadFile (under SpecData): its catch handler makes an error record
C26_DownloadFileSettles ==
  \A h \in RefusedDownloads \cup ErrorDownloads :
    downloads[h].cont[1] = "req" => SettledWithError(h)

(***************************************************************************)
(* Claims about the save prompt (checked under SpecPrompt)                 *)
(***************************************************************************)
\* the download of a capture's primary artifact: the main document, the
\* finalized archive or the bookmark page
IsPrimary(h) ==
  /\ downloads[h].kind \in {"document", "archive"}
  /\ downloads[h].cont[1] = "doc"
  /\ docs[downloads[h].cont[2]].main

\* the download was made by captureBookmark
OfBookmark(h) ==
  downloads[h].cont[1] = "doc" /\ docs[downloads[h].cont[2]].op = "captureBookmark"

\* savePrompt, where InFolderMode(h) tells the downloads that the mode folder
\* keeps from prompting
PromptOnlyForPrimary(InFolderMode(_)) ==
  \A h \in 1..Len(downloads) :
    /\ downloads[h].savePrompt => (IsPrimary(h) /\ ~options.saveInScrapbook)
    /\ ~IsPrimary(h) => ~downloads[h].savePrompt
    /\ InFolderMode(h) => ~downloads[h].savePrompt
    /\ options.saveInScrapbook => ~downloads[h].savePrompt

AnyInFolderMode(h) == options.saveAs = "folder"
PackagedInFolderMode(h) == options.saveAs = "folder" /\ ~OfBookmark(h)

\* C25 (as stated): savePrompt is true only for the download of a primary
\* artifact of a capture that does not go to the scrapbook folder; it is false
\* for every download of a secondary resource, for every download in mode
\* folder and for every download when capture.saveInScrapbook is set.
C25_PromptNeverInFolder == PromptOnlyForPrimary(AnyInFolderMode)

\* C25 (amended): the same, where the downloads of mode folder are those of
\* saveDocument and downloadBlob; the bookmark page of captureBookmark is
\* saved with the prompt whatever capture.saveAs is.
C25_Prompt ==
  /\ PromptOnlyForPrimary(PackagedInFolderMode)
  /\ \A h \in 1..Len(downloads) :
       (OfBookmark(h) /\ ~options.saveInScrapbook) => downloads[h].savePrompt

\* C25 witness: outside the scrapbook folder an archive and a bookmark page
\* are downloaded with the prompt.
C25_Witness ==
  /\ ~options.saveInScrapbook
  /\ \E h \in 1..Len(downloads) : downloads[h].kind = "archive" /\ downloads[h].savePrompt
  /\ \E h \in 1..Len(downloads) : OfBookmark(h) /\ downloads[h].savePrompt

(***************************************************************************)
(* Claims about the names taken from a response (checked under SpecHeaders)*)
(***************************************************************************)
\* the headers declare a filename
Declares(headers) == headers.filename # None /\ headers.filename[1] # <<>>

\* the declared filename if there is one, the name in the URL otherwise
PreferredName(sourceUrl, headers) ==
  IF Declares(headers) THEN headers.filename[1] ELSE urlToFilename(sourceUrl)

\* a name without extension gets that of the declared content type
WithTypeExtension(name, headers) ==
  IF /\ headers.contentType # None
     /\ filenameParts(name)[2] = <<>>
     /\ MimeExtension(headers.contentType[1]) # <<>>
  THEN filenameParts(name)[1] \o <<".">> \o MimeExtension(headers.contentType[1])
  ELSE name

\* a document's name: the name without the extension of its type
WithoutTypeExtension(name, mime) ==
  IF mime = Mime_html /\ EndsWith(toLowerCase(name), Str_html)
  THEN SubSeq(name, 1, Len(name) - Len(Str_html))
  ELSE IF mime = Mime_xhtml /\ EndsWith(toLowerCase(name), Str_xhtml)
  THEN SubSeq(name, 1, Len(name) - Len(Str_xhtml))
  ELSE name

\* in the step in which downloadFile's request r gets its headers the call's
\* filename is the preferred name, with the extension of the content type if
\* it has none, made unique unless the strategy is singleHtml
DownloadFileNamed(r, responseUrl, headers) ==
  (DownloadFileHeaders(r, responseUrl, headers) /\ req'[r].xhr = "headers") =>
    LET name == validateFilename(WithTypeExtension(PreferredName(req[r].url, headers), headers))
    IN req'[r].filename =
         Some(IF options.saveAs = "singleHtml" THEN name
              ELSE UniqueFilename(FilesOf(captureInfo, TimeId), name))

\* in the step in which captureUrl's request r gets its headers and has no
\* document name yet, the name generated is the declared filename if there is
\* one
CaptureUrlNamed(r, responseUrl, headers) ==
  ( /\ CaptureUrlHeaders(r, responseUrl, headers)
    /\ req'[r].xhr = "headers"
    /\ req[r].documentName = None
    /\ Declares(headers) ) =>
    req'[r].documentName =
      Some(WithoutTypeExtension(headers.filename[1],
             IF headers.contentType # None THEN headers.contentType[1] ELSE Mime_html))

\* C24: where a name is taken from a response - the filename of downloadFile
\* and the document name generated by captureUrl - a filename declared by
\* Content-Disposition is preferred to the name in the URL, and in
\* downloadFile a name without extension gets that of the content type.
C24_DeclaredName ==
  [][\A r \in Reqs, responseUrl \in ResponseUrls, headers \in HeaderValues :
       /\ DownloadFileNamed(r, responseUrl, headers)
       /\ CaptureUrlNamed(r, responseUrl, headers)]_vars

\* C24, the part the code keeps: the filename of downloadFile
C24_DeclaredFilename ==
  [][\A r \in Reqs, responseUrl \in ResponseUrls, headers \in HeaderValues :
       DownloadFileNamed(r, responseUrl, headers)]_vars

(***************************************************************************)
(* Claims about captureTab (checked under SpecTab)                         *)
(***************************************************************************)
\* C7: once the capture call of captureTab has answered and the handlers of
\* the chain have run, the promise captureTab returned is settled: fulfilled
\* with the response, or settled with the one error made of the source and
\* the reason.
C7_TabSettles ==
  tab.st = "finished" =>
    \/ tab.outer.st = "fulfilled" /\ tab.chain.kind = "response" /\ tab.outer.val = tab.chain.val
    \/ tab.outer.st \in {"fulfilled", "rejected"} /\ tab.chain.kind = "error"

\* C8: once captureTab's chain has finished (a response, no response, an
\* error response, or a rejected capture call), capturer.captureInfo holds no
\* entry for the session id.
C8_SessionDestroyed ==
  tab.st = "finished" => TimeId \notin DOMAIN captureInfo

\* the results that are a data URI
IsDataUri(result) == result.error = None /\ StartsWithData(result.url)

\* the downloadBlob runs of downloadFile calls, and the saveDocument calls
\* for frames, that have answered
BlobsSaved ==
  {r \in Reqs : req[r].op = "downloadFile" /\ req[r].pc = "done" /\ ~req[r].failed
                /\ req[r].xhr = "loaded"}
FramesSaved ==
  {d \in 1..Len(docs) : docs[d].op = "saveDocument" /\ ~docs[d].main /\ docs[d].st = "done"}
BlobCallsSaved == {d \in 1..Len(docs) : docs[d].op = "downloadBlob" /\ docs[d].st = "done"}

RECURSIVE Base64Decode(_)
Base64Decode(text) ==
  IF Len(text) < 2 THEN <<>>
  ELSE (CASE SubSeq(text, 1, 2) = <<"I","w">> -> <<"#">>
          [] SubSeq(text, 1, 2) = <<"O","w">> -> <<";">>
          [] SubSeq(text, 1, 2) = <<"L","A">> -> <<",">>
          [] OTHER -> <<text[2]>>) \o Base64Decode(SubSeq(text, 3, Len(text)))

\* what a data URI stands for: the fragment is not part of it, the media
\* type is the text up to the first ";" and the data follow the first ","
DecodeDataUri(url) ==
  LET body == BeforeHash(url)
      comma == IndexOf(body, ",")
      header == SubSeq(body, 2, comma - 1)
      data == SubSeq(body, comma + 1, Len(body))
  IN IF Len(body) < 2 \/ body[1] # "data:" \/ comma < 2
     THEN [type |-> "", bytes |-> <<"?">>]
     ELSE [type |-> header[1],
           bytes |-> IF Len(header) >= 2 /\ SubSeq(header, Len(header) - 1, Len(header))
                                              = <<";", "base64">>
                     THEN Base64Decode(data) ELSE data]

\* C18: in mode singleHtml the data URI that downloadBlob answers with, the
\* filename parameter and the fragment of the source URL included, stands for
\* the bytes and the type of the blob it was given.
C18_RoundTrip ==
  options.saveAs = "singleHtml" =>
    /\ \A d \in BlobCallsSaved :
         DecodeDataUri(docs[d].result.val.url)
           = [type |-> docs[d].blob[1].type, bytes |-> docs[d].blob[1].bytes]
    /\ \A r \in BlobsSaved :
         \E blob \in ResponseBlobs :
           DecodeDataUri(promise[r].val.url) = [type |-> blob.type, bytes |-> blob.bytes]

\* C18 witness: downloadBlob has answered for a blob whose bytes and whose
\* filename hold ";", "#" and ",", with a source URL that has a fragment.
C18_Witness ==
  /\ options.saveAs = "singleHtml"
  /\ \E d \in BlobCallsSaved :
       /\ docs[d].blob[1].bytes = <<";","#",",">>
       /\ IndexOf(docs[d].documentName, ",") > 0
       /\ UrlHash(docs[d].sourceUrl) # <<>>
       /\ IndexOf(docs[d].result.val.url, "#") > 0

(***************************************************************************)
(* Claims about the allocator (checked under SpecNames)                    *)
(***************************************************************************)
UniqueCalls == {j \in 1..Len(returned) : returned[j].op = "getUniqueFilename"}
DocumentCalls == {j \in 1..Len(returned) : returned[j].op = "registerDocument"}

\* C5: every name getUniqueFilename returns differs, compared
\* case-insensitively, from every name it returned earlier in the session, and
\* from the reserved default names index.rdf and index.dat.
C5_UniqueNames ==
  \A j \in UniqueCalls :
    /\ toLowerCase(returned[j].name) \notin {toLowerCase(d) : d \in defaultFilesSet}
    /\ \A i \in UniqueCalls :
         i < j => toLowerCase(returned[i].name) # toLowerCase(returned[j].name)

\* C5 witness: the same name was asked for twice in different letter case, and
\* a reserved default name was asked for.
C5_Witness ==
  /\ \E i, j \in UniqueCalls :
       /\ i < j
       /\ returned[i].arg # returned[j].arg
       /\ toLowerCase(returned[i].arg) = toLowerCase(returned[j].arg)
  /\ \E k \in UniqueCalls : toLowerCase(returned[k].arg) \in defaultFilesSet

\* the document name with the suffix _n (n = 0: no suffix)
Suffixed(documentName, n) ==
  IF n = 0 THEN documentName ELSE documentName \o <<"_">> \o NumStr(n)

DocumentFree(files, name) ==
  /\ toLowerCase(name) \o Str_html \notin files
  /\ toLowerCase(name) \o Str_xhtml \notin files

\* C6: registerDocument returns the desired name, or the desired name with
\* the suffix _N for the smallest N >= 1, such that neither D.html nor D.xhtml
\* was in the files set before; both are in the set after the call, and no
\* later call of the session returns a name that collides with either.
C6_DocumentReserved ==
  \A j \in DocumentCalls :
    LET D == returned[j].name
        before == returned[j].before
    IN /\ DocumentFree(before, D)
       /\ \E n \in 0..Cardinality(before) :
            /\ D = Suffixed(returned[j].arg, n)
            /\ \A m \in 0..(n - 1) : ~DocumentFree(before, Suffixed(returned[j].arg, m))
       /\ returned[j].after = before \cup {toLowerCase(D) \o Str_html, toLowerCase(D) \o Str_xhtml}
       /\ \A k \in (j + 1)..Len(returned) :
            /\ returned[j].after \subseteq returned[k].before
            /\ returned[k].op = "getUniqueFilename" =>
                 toLowerCase(returned[k].name) \notin
                   {toLowerCase(D) \o Str_html, toLowerCase(D) \o Str_xhtml}
            /\ returned[k].op = "registerDocument" =>
                 toLowerCase(returned[k].name) # toLowerCase(D)

\* C6 witness: a document name got a suffix because only its .xhtml name was
\* taken, and a later getUniqueFilename call asked for the reserved .html name.
C6_Witness ==
  \E j \in DocumentCalls :
    /\ returned[j].name # returned[j].arg
    /\ toLowerCase(returned[j].arg) \o Str_html \notin returned[j].before
    /\ \E k \in UniqueCalls :
         /\ k > j
         /\ toLowerCase(returned[k].arg) = toLowerCase(returned[j].name) \o Str_html
         /\ returned[k].name # returned[k].arg

\* the base of a name, clamped to the byte and character bounds
ClampedBase(name) == crop(crop(filenameParts(name)[1], CropBytes, TRUE), CropChars, FALSE)

\* the extension of a name with its dot ("" when it has none)
DotExt(name) ==
  IF filenameParts(name)[2] # <<>> THEN <<".">> \o filenameParts(name)[2] ELSE <<>>

\* the name with its base clamped and the counter n before its extension
\* (n = 0: no counter)
Numbered(name, n) ==
  IF n = 0 THEN ClampedBase(name) \o DotExt(name)
  ELSE ClampedBase(name) \o <<"-">> \o NumStr(n) \o DotExt(name)

\* what a call of getUniqueFilename did, for the desired name `desired`: it
\* returned the clamped name when that was free and the name with the smallest
\* free counter otherwise, and added the lowercase form of what it returned
AllocatedFor(j, desired) ==
  LET before == returned[j].before
      name == returned[j].name
  IN /\ toLowerCase(Numbered(desired, 0)) \notin before => name = Numbered(desired, 0)
     /\ toLowerCase(Numbered(desired, 0)) \in before =>
          \E n \in 1..(Cardinality(before) + 1) :
            /\ name = Numbered(desired, n)
            /\ \A m \in 0..(n - 1) : toLowerCase(Numbered(desired, m)) \in before
     /\ toLowerCase(name) \notin before
     /\ returned[j].after = before \cup {toLowerCase(name)}
     /\ Cardinality(returned[j].after) = Cardinality(before) + 1

\* the files set of the session is the one the last call left
FilesKept ==
  /\ returned # <<>> => FilesOf(captureInfo, TimeId) = returned[Len(returned)].after
  /\ \A j \in 2..Len(returned) : returned[j].before = returned[j - 1].after

\* C20 (as stated): getUniqueFilename returns the clamped desired name in its
\* original letter case when its lowercase form is not in the files set, and
\* base-N.ext for the smallest free N >= 1 otherwise; it adds exactly the
\* lowercase form of the returned name and removes nothing.
C20_ReturnsDesired ==
  /\ FilesKept
  /\ \A j \in UniqueCalls : AllocatedFor(j, returned[j].arg)

\* C20 (amended): the same, where an empty desired name stands for "untitled"
C20_ReturnsDesiredOrUntitled ==
  /\ FilesKept
  /\ \A j \in UniqueCalls :
       AllocatedFor(j, IF returned[j].arg = <<>> THEN Str_untitled ELSE returned[j].arg)

\* C20 witness: a free name was returned as asked, and a later call that asked
\* for a taken name in capitals got it back in capitals with the counter 2.
C20_Witness ==
  /\ \E i \in UniqueCalls : returned[i].arg # <<>> /\ returned[i].name = returned[i].arg
  /\ \E j \in UniqueCalls :
       /\ returned[j].name = Numbered(returned[j].arg, 2)
       /\ returned[j].name # toLowerCase(returned[j].name)
       /\ toLowerCase(returned[j].name) \in returned[j].after

\* the counter of a returned name as text ("" when it has none)
CounterText(n) == IF n = 0 THEN <<>> ELSE <<"-">> \o NumStr(n)

\* the base of the returned name before the counter is within both bounds, and
\* the loop ended within as many rounds as the set had names: the name is a
\* prefix of the desired base within the bounds, then the counter n (if any),
\* then the extension
BaseWithinBound(j) ==
  LET desired == IF returned[j].arg = <<>> THEN Str_untitled ELSE returned[j].arg
      base == filenameParts(desired)[1]
      name == returned[j].name
  IN \E n \in 0..Cardinality(returned[j].before) :
       LET k == Len(name) - Len(CounterText(n)) - Len(DotExt(desired))
       IN /\ 0 <= k /\ k <= CropChars /\ k <= Len(base)
          /\ Utf8Len(SubSeq(base, 1, k)) <= CropBytes
          /\ name = SubSeq(base, 1, k) \o CounterText(n) \o DotExt(desired)

====
